---------------------------- MODULE Spec2Model ----------------------------
(***************************************************************************)
(* Verification model of the data core of real-estate-automation:          *)
(*   crews/crew1_data/tools/validator.py   (validate_israeli_id and the    *)
(*                                          50-rule run_validation)        *)
(*   tools/data_adapter.py                 (normalize_transaction,         *)
(*                                          denormalize_transaction)       *)
(*                                                                         *)
(* Python values are records tagged by their type in field t:              *)
(*   [t |-> "none"]                      None                              *)
(*   [t |-> "str",   s |-> <<chars>>]    a str, one element per character  *)
(*   [t |-> "int",   n |-> i]            an int that fits a machine word   *)
(*   [t |-> "big"]                       the int 10**400                   *)
(*   [t |-> "float", sg, m, e]           the finite float sg * m / 10^e    *)
(*   [t |-> "inf",   sg |-> 1 or -1]     float infinity                    *)
(*   [t |-> "nan"]                       float nan                         *)
(*   [t |-> "list",  items |-> <<..>>]   a list (of ints)                  *)
(*   [t |-> "bool",  b |-> TRUE/FALSE]   True or False                     *)
(* A character is a one-letter string; "alef" stands for the Hebrew letter *)
(* U+05D0 and "sup2" for U+00B2 (SUPERSCRIPT TWO: str.isdigit() is true of *)
(* it and int() rejects it) and "ar2" for U+0662 (ARABIC-INDIC DIGIT TWO:  *)
(* a decimal digit to str.isdigit(), int(), float() and the regex class \d *)
(* and outside the regex class [0-9]).  The strings of the model use no    *)
(* exponent or underscore notation of numbers.                             *)
(* A Python dict is a function from the set of its keys.                   *)
(***************************************************************************)
EXTENDS Integers, Sequences, FiniteSets, TLC

(***************************************************************************)
(* Python values                                                           *)
(***************************************************************************)
PyNone == [t |-> "none"]
PyStr(s) == [t |-> "str", s |-> s]
PyInt(n) == [t |-> "int", n |-> n]
PyBig == [t |-> "big"]
PyFloat(sg, m, e) == [t |-> "float", sg |-> sg, m |-> m, e |-> e]
PyInf(sg) == [t |-> "inf", sg |-> sg]
PyNan == [t |-> "nan"]
PyList(items) == [t |-> "list", items |-> items]
PyDict(d) == [t |-> "dict", d |-> d]
PyBool(b) == [t |-> "bool", b |-> b]

\* the dict {} as a function, and as a value
EmptyRecord == [f \in {} |-> PyNone]
EmptyDict == PyDict(EmptyRecord)

EmptyStr == PyStr(<< >>)

\* the value of a variable that holds nothing
Unused == [t |-> "unused"]

\* The int [t |-> "big"] is 10**BigZeros, an int beyond the range of a float
\* (the largest float is below 10**309).
BigZeros == 400

RECURSIVE Pow10(_)
Pow10(k) == IF k = 0 THEN 1 ELSE 10 * Pow10(k - 1)

(***************************************************************************)
(* Characters and the str methods the code uses                            *)
(***************************************************************************)
Digits == <<"0", "1", "2", "3", "4", "5", "6", "7", "8", "9">>

\* one of the characters 0-9 (the regex class [0-9])
IsAsciiDigit(c) == \E i \in 1..10 : Digits[i] = c

\* int(c) for one decimal digit character; "ar2" is U+0662, the Arabic-Indic
\* digit two
DigitVal(c) == IF c = "ar2" THEN 2 ELSE CHOOSE i \in 0..9 : Digits[i + 1] = c

\* a character int() and float() read as a decimal digit (str.isdecimal, the
\* regex class \d)
IsDecimal(c) == IsAsciiDigit(c) \/ c = "ar2"

\* str.isdigit on one character: the decimal digits and U+00B2
IsDigit(c) == IsDecimal(c) \/ c = "sup2"

IsSpace(c) == c = " "

IsHebrew(c) == c \in {"alef", "bet"}

IsAsciiLetter(c) ==
    c \in {"a", "b", "c", "d", "e", "f", "g", "h", "i", "j", "k", "l", "m",
           "n", "o", "p", "q", "r", "s", "t", "u", "v", "w", "x", "y", "z",
           "N"}

\* str.strip(): leading and trailing whitespace removed
Strip(s) ==
    LET keep == {i \in 1..Len(s) : ~IsSpace(s[i])}
    IN IF keep = {} THEN << >>
       ELSE LET lo == CHOOSE i \in keep : \A j \in keep : i <= j
                hi == CHOOSE i \in keep : \A j \in keep : j <= i
            IN SubSeq(s, lo, hi)

\* str.isdigit(): non-empty and every character a digit
IsDigitStr(s) == Len(s) > 0 /\ \A i \in 1..Len(s) : IsDigit(s[i])

\* non-empty and every character a decimal digit (the regex class \d)
IsDecimalStr(s) == Len(s) > 0 /\ \A i \in 1..Len(s) : IsDecimal(s[i])

\* non-empty and every character one of 0-9
IsAsciiDigitStr(s) == Len(s) > 0 /\ \A i \in 1..Len(s) : IsAsciiDigit(s[i])

Zeros(k) == [i \in 1..k |-> "0"]

\* str.zfill(width): zeros on the left, after a leading sign
Zfill(s, width) ==
    IF Len(s) >= width THEN s
    ELSE IF Len(s) > 0 /\ s[1] \in {"+", "-"}
         THEN <<s[1]>> \o Zeros(width - Len(s)) \o Tail(s)
         ELSE Zeros(width - Len(s)) \o s

\* re.sub(class, "", s): s without the characters of the class drop
RemoveChars(s, drop) ==
    LET Kept(c) == c \notin drop IN SelectSeq(s, Kept)

\* the value of a string of decimal digits
RECURSIVE DigitsVal(_)
DigitsVal(s) ==
    IF s = << >> THEN 0
    ELSE 10 * DigitsVal(SubSeq(s, 1, Len(s) - 1)) + DigitVal(s[Len(s)])

\* str(n) for a natural number
RECURSIVE NatToStr(_)
NatToStr(n) ==
    IF n < 10 THEN <<Digits[n + 1]>>
    ELSE NatToStr(n \div 10) \o <<Digits[(n % 10) + 1]>>

IntToStr(n) == IF n < 0 THEN <<"-">> \o NatToStr(-n) ELSE NatToStr(n)

\* a digit string without its leading zeros
DropLeadingZeros(s) ==
    LET nz == {i \in 1..Len(s) : s[i] # "0"}
    IN IF nz = {} THEN << >>
       ELSE SubSeq(s, CHOOSE i \in nz : \A j \in nz : i <= j, Len(s))

\* a digit string without its trailing zeros
DropTrailingZeros(s) ==
    LET nz == {i \in 1..Len(s) : s[i] # "0"}
    IN IF nz = {} THEN << >>
       ELSE SubSeq(s, 1, CHOOSE i \in nz : \A j \in nz : j <= i)

Lower(c) ==
    CASE c = "N" -> "n"
      [] c = "A" -> "a"
      [] c = "T" -> "t"
      [] c = "F" -> "f"
      [] OTHER -> c

LowerStr(s) == [i \in 1..Len(s) |-> Lower(s[i])]

(***************************************************************************)
(* Python's conversions: float(), int(), str(), bool(), ==                 *)
(* A conversion returns [k |-> "ok", v |-> value] or                       *)
(* [k |-> "raise", exc |-> the exception's class].                         *)
(***************************************************************************)
Ok(v) == [k |-> "ok", v |-> v]
Raise(exc) == [k |-> "raise", exc |-> exc]

\* an unsigned decimal literal: digits, at most one point, at least one digit
IsUnsignedDecimal(r) ==
    /\ \A i \in 1..Len(r) : IsDecimal(r[i]) \/ r[i] = "."
    /\ Cardinality({i \in 1..Len(r) : r[i] = "."}) <= 1
    /\ \E i \in 1..Len(r) : IsDecimal(r[i])

\* the float of the digits before and after the point
MakeFloat(sg, ip, fp) ==
    IF Len(ip) > 309 THEN Ok(PyInf(sg))
    ELSE Ok(PyFloat(sg, DigitsVal(ip \o fp), Len(fp)))

\* the place of the point in a literal, past its end when it has none
DotIndex(r) ==
    IF \E i \in 1..Len(r) : r[i] = "." THEN CHOOSE i \in 1..Len(r) : r[i] = "."
    ELSE Len(r) + 1

SplitFloat(sg, r, dot) ==
    MakeFloat(sg, DropLeadingZeros(SubSeq(r, 1, dot - 1)),
              DropTrailingZeros(SubSeq(r, dot + 1, Len(r))))

\* float of a literal without its sign, in lower case too
ParseUnsignedFloat(sg, r, low) ==
    IF low \in {<<"i", "n", "f">>, <<"i", "n", "f", "i", "n", "i", "t", "y">>}
    THEN Ok(PyInf(sg))
    ELSE IF low = <<"n", "a", "n">> THEN Ok(PyNan)
    ELSE IF ~IsUnsignedDecimal(r) THEN Raise("ValueError")
    ELSE SplitFloat(sg, r, DotIndex(r))

\* float of a stripped literal
ParseSignedFloat(t) ==
    IF t # << >> /\ t[1] \in {"+", "-"}
    THEN ParseUnsignedFloat(IF t[1] = "-" THEN -1 ELSE 1, Tail(t), LowerStr(Tail(t)))
    ELSE ParseUnsignedFloat(1, t, LowerStr(t))

\* float(s) for a str s
ParseFloat(s) == ParseSignedFloat(Strip(s))

\* float(v)
FloatOf(v) ==
    CASE v.t = "str" -> ParseFloat(v.s)
      [] v.t = "int" -> Ok(PyFloat(IF v.n < 0 THEN -1 ELSE 1,
                                   IF v.n < 0 THEN -v.n ELSE v.n, 0))
      [] v.t = "big" -> Raise("OverflowError")
      [] v.t \in {"float", "inf", "nan"} -> Ok(v)
      [] v.t = "bool" -> Ok(PyFloat(1, IF v.b THEN 1 ELSE 0, 0))
      [] OTHER -> Raise("TypeError")

\* int of a literal without its sign
ParseUnsignedInt(sg, r) ==
    IF ~IsDecimalStr(r) THEN Raise("ValueError")
    ELSE IF r = <<"1">> \o Zeros(BigZeros) /\ sg = 1 THEN Ok(PyBig)
    ELSE Ok(PyInt(sg * DigitsVal(DropLeadingZeros(r))))

\* int of a stripped literal
ParseSignedInt(t) ==
    IF t # << >> /\ t[1] \in {"+", "-"}
    THEN ParseUnsignedInt(IF t[1] = "-" THEN -1 ELSE 1, Tail(t))
    ELSE ParseUnsignedInt(1, t)

\* int(s) for a str s
ParseInt(s) == ParseSignedInt(Strip(s))

\* int(v)
IntOf(v) ==
    CASE v.t = "str" -> ParseInt(v.s)
      [] v.t \in {"int", "big"} -> Ok(v)
      [] v.t = "float" -> Ok(PyInt(v.sg * (v.m \div Pow10(v.e))))
      [] v.t = "inf" -> Raise("OverflowError")
      [] v.t = "nan" -> Raise("ValueError")
      [] v.t = "bool" -> Ok(PyInt(IF v.b THEN 1 ELSE 0))
      [] OTHER -> Raise("TypeError")

\* the digits ds of a float with e of them after the point
PointAt(ds, e) ==
    SubSeq(ds, 1, Len(ds) - e) \o <<".">>
    \o (IF e = 0 THEN <<"0">> ELSE SubSeq(ds, Len(ds) - e + 1, Len(ds)))

\* str(f) for a float
FloatToStr(f) ==
    CASE f.t = "nan" -> <<"n", "a", "n">>
      [] f.t = "inf" -> (IF f.sg < 0 THEN <<"-">> ELSE << >>) \o <<"i", "n", "f">>
      [] OTHER ->
         (IF f.sg < 0 THEN <<"-">> ELSE << >>)
         \o PointAt(Zfill(NatToStr(f.m), f.e + 1), f.e)

\* str(v) of a scalar
ScalarToStr(v) ==
    CASE v.t = "none" -> <<"N", "o", "n", "e">>
      [] v.t = "str" -> v.s
      [] v.t = "int" -> IntToStr(v.n)
      [] v.t = "big" -> <<"1">> \o Zeros(BigZeros)
      [] v.t = "bool" -> (IF v.b THEN <<"T", "r", "u", "e">>
                          ELSE <<"F", "a", "l", "s", "e">>)
      [] OTHER -> FloatToStr(v)

RECURSIVE JoinItems(_)
JoinItems(items) ==
    IF items = << >> THEN << >>
    ELSE IF Len(items) = 1 THEN ScalarToStr(items[1])
         ELSE ScalarToStr(items[1]) \o <<",", " ">> \o JoinItems(Tail(items))

\* str(v)
StrOf(v) ==
    IF v.t = "list" THEN <<"[">> \o JoinItems(v.items) \o <<"]">>
    ELSE ScalarToStr(v)

\* bool(v)
Truthy(v) ==
    CASE v.t = "none" -> FALSE
      [] v.t = "str" -> v.s # << >>
      [] v.t = "int" -> v.n # 0
      [] v.t = "float" -> v.m # 0
      [] v.t = "list" -> v.items # << >>
      [] v.t = "dict" -> DOMAIN v.d # {}
      [] v.t = "bool" -> v.b
      [] OTHER -> TRUE

IsNumber(v) == v.t \in {"int", "big", "float", "inf", "nan"}

\* a == b
PyEq(a, b) ==
    IF a.t = "nan" \/ b.t = "nan" THEN FALSE
    ELSE IF a.t = b.t
         THEN IF a.t = "float"
              THEN a.m = b.m /\ a.e = b.e /\ (a.sg = b.sg \/ a.m = 0)
              ELSE a = b
         ELSE IF a.t = "int" /\ b.t = "float"
              THEN b.e = 0 /\ b.sg * b.m = a.n
              ELSE IF a.t = "float" /\ b.t = "int"
                   THEN a.e = 0 /\ a.sg * a.m = b.n
                   ELSE FALSE

\* f >= k and f <= k for a float f and an integer k
FloatGE(f, k) ==
    CASE f.t = "nan" -> FALSE
      [] f.t = "inf" -> f.sg > 0
      [] OTHER ->
         LET ip == f.m \div Pow10(f.e)
             fr == f.m % Pow10(f.e)
         IN IF f.sg > 0 THEN ip >= k
            ELSE ip < -k \/ (ip = -k /\ fr = 0)

FloatLE(f, k) ==
    CASE f.t = "nan" -> FALSE
      [] f.t = "inf" -> f.sg < 0
      [] OTHER ->
         LET ip == f.m \div Pow10(f.e)
             fr == f.m % Pow10(f.e)
         IN IF f.sg > 0 THEN ip < k \/ (ip = k /\ fr = 0)
            ELSE ip >= -k

(***************************************************************************)
(* Dates: datetime.strptime(s, "%Y-%m-%d")                                 *)
(***************************************************************************)
Date(y, m, d) == [y |-> y, m |-> m, d |-> d]

NoDate == [ok |-> FALSE, y |-> 0, m |-> 0, d |-> 0]

IsLeap(y) == y % 4 = 0 /\ (y % 100 # 0 \/ y % 400 = 0)

DaysInMonth(y, m) ==
    IF m = 2 THEN (IF IsLeap(y) THEN 29 ELSE 28)
    ELSE IF m \in {4, 6, 9, 11} THEN 30 ELSE 31

\* %m: 1[0-2]|0[1-9]|[1-9]
IsMonthText(ms) ==
    /\ IsAsciiDigitStr(ms) /\ Len(ms) <= 2
    /\ DigitsVal(ms) \in 1..12

\* %d: 3[01]|[12]\d|0[1-9]|[1-9]| [1-9]
IsDayText(ds) ==
    \/ IsAsciiDigitStr(ds) /\ Len(ds) <= 2 /\ DigitsVal(ds) \in 1..31
    \/ Len(ds) = 2 /\ ds[1] \in {"1", "2"} /\ IsDecimal(ds[2])
    \/ Len(ds) = 2 /\ ds[1] = " " /\ IsAsciiDigit(ds[2]) /\ ds[2] # "0"

DayValue(ds) == IF ds[1] = " " THEN DigitVal(ds[2]) ELSE DigitsVal(ds)

\* the date of the texts of year, month and day
MakeDate(ys, ms, ds) ==
    IF ~IsMonthText(ms) \/ ~IsDayText(ds) THEN NoDate
    ELSE IF DigitsVal(ys) < 1 \/ DayValue(ds) > DaysInMonth(DigitsVal(ys), DigitsVal(ms))
    THEN NoDate
    ELSE [ok |-> TRUE, y |-> DigitsVal(ys), m |-> DigitsVal(ms), d |-> DayValue(ds)]

\* the text after "YYYY-" is split at its first dash, at place j
SplitMonthDay(ys, rest, j) ==
    MakeDate(ys, SubSeq(rest, 1, j - 1), SubSeq(rest, j + 1, Len(rest)))

ParseMonthDay(ys, rest) ==
    IF \A i \in 1..Len(rest) : rest[i] # "-" THEN NoDate
    ELSE SplitMonthDay(ys, rest,
             CHOOSE i \in 1..Len(rest) :
                 rest[i] = "-" /\ \A k \in 1..(i - 1) : rest[k] # "-")

\* strptime(s, "%Y-%m-%d"): [ok |-> TRUE, y, m, d], or ok = FALSE for ValueError
ParseDate(s) ==
    IF Len(s) < 8 \/ ~IsDecimalStr(SubSeq(s, 1, 4)) \/ s[5] # "-" THEN NoDate
    ELSE ParseMonthDay(SubSeq(s, 1, 4), SubSeq(s, 6, Len(s)))

\* a >= b for two dates
DateGE(a, b) ==
    \/ a.y > b.y
    \/ a.y = b.y /\ a.m > b.m
    \/ a.y = b.y /\ a.m = b.m /\ a.d >= b.d

(***************************************************************************)
(* validator.py: the field validators                                      *)
(***************************************************************************)
\* IdDigitValue with the weights 2, 1, 2, ... instead of 1, 2, 1, ...
IdDigitValue_swapped(i, digit) ==
    LET val == digit * (((i + 1) % 2) + 1)
    IN IF val > 9 THEN val - 9 ELSE val

\* the contribution of the digit at 0-based position i (lines 23-25)
IdDigitValue(i, digit) ==
    LET val == digit * ((i % 2) + 1)
    IN IF val > 9 THEN val - 9 ELSE val

RECURSIVE IdTotal(_, _)
IdTotal(id_str, n) ==
    IF n = 0 THEN 0
    ELSE IdTotal(id_str, n - 1) + IdDigitValue(n - 1, DigitVal(id_str[n]))

\* the length an id is padded to and must have
IdLength == 9

\* lines 19-27, on the padded string
IdPadded(padded) ==
    IF Len(padded) # IdLength THEN Ok(FALSE)
    ELSE IF \E i \in 1..IdLength : ~IsDecimal(padded[i])
         THEN Raise("ValueError")
         ELSE Ok(IdTotal(padded, IdLength) % 10 = 0)

\* lines 16-27, on the stripped string
IdStripped(id_str) ==
    IF id_str = << >> \/ ~IsDigitStr(id_str) THEN Ok(FALSE)
    ELSE IdPadded(Zfill(id_str, IdLength))

validate_israeli_id(id_number) ==
    IF id_number.t # "str" THEN Raise("AttributeError")
    ELSE IdStripped(Strip(id_number.s))

\* ^0[2-9]\d{7,8}$
IsPhone(cleaned) ==
    /\ Len(cleaned) \in {9, 10}
    /\ cleaned[1] = "0"
    /\ IsAsciiDigit(cleaned[2]) /\ DigitVal(cleaned[2]) >= 2
    /\ \A i \in 3..Len(cleaned) : IsDecimal(cleaned[i])

\* cleaned = re.sub(r"[\s\-\(\)]", "", phone); ^0[2-9]\d{7,8}$
validate_israeli_phone(phone) ==
    IF phone.t # "str" THEN Raise("TypeError")
    ELSE Ok(IsPhone(RemoveChars(phone.s, {" ", "-", "(", ")"})))

IsEmailLocalChar(c) ==
    IsAsciiLetter(c) \/ IsAsciiDigit(c) \/ c \in {".", "_", "%", "+", "-"}

IsEmailDomainChar(c) ==
    IsAsciiLetter(c) \/ IsAsciiDigit(c) \/ c \in {".", "-"}

\* ^[a-zA-Z0-9._%+\-]+@[a-zA-Z0-9.\-]+\.[a-zA-Z]{2,}$
IsEmail(e) ==
    \E at \in 2..Len(e) : \E dot \in (at + 2)..(Len(e) - 2) :
        /\ e[at] = "@" /\ e[dot] = "."
        /\ \A i \in 1..(at - 1) : IsEmailLocalChar(e[i])
        /\ \A i \in (at + 1)..(dot - 1) : IsEmailDomainChar(e[i])
        /\ \A i \in (dot + 1)..Len(e) : IsAsciiLetter(e[i])

validate_email(email) ==
    IF email.t # "str" THEN Raise("TypeError") ELSE Ok(IsEmail(email.s))

validate_date(date_str) == Ok(ParseDate(StrOf(date_str)).ok)

\* ^\d{1,n}$
DigitsUpTo(b, n) == IsDecimalStr(b) /\ Len(b) <= n

\* ^\d{1,6}$ on str(block).strip()
validate_block_number(block) == Ok(DigitsUpTo(Strip(StrOf(block)), 6))

\* ^\d{1,5}$ on str(parcel).strip()
validate_parcel_number(parcel) == Ok(DigitsUpTo(Strip(StrOf(parcel)), 5))

\* lo <= p <= hi for the outcome f of float(x); ValueError and TypeError caught
InRange(f, lo, hi) ==
    IF f.k = "raise"
    THEN (IF f.exc \in {"ValueError", "TypeError"} THEN Ok(FALSE) ELSE f)
    ELSE Ok(FloatGE(f.v, lo) /\ FloatLE(f.v, hi))

\* try: lo <= float(x) <= hi; except (ValueError, TypeError): False
FloatInRange(x, lo, hi) == InRange(FloatOf(x), lo, hi)

validate_price(price) == FloatInRange(price, 50000, 100000000)

validate_area(area) == FloatInRange(area, 10, 5000)

validate_rooms(rooms) == FloatInRange(rooms, 1, 20)

HasHebrew(n) == \E i \in 1..Len(n) : IsHebrew(n[i])

\* re.search of a character in U+0590..U+05FF in str(name)
validate_hebrew_name(name) == Ok(HasHebrew(StrOf(name)))

\* d >= s for the outcomes of the two strptime calls; ValueError caught
NotBefore(d, s) == IF ~s.ok \/ ~d.ok THEN FALSE ELSE DateGE(d, s)

validate_delivery_after_signing(signing, delivery) ==
    NotBefore(ParseDate(StrOf(delivery)), ParseDate(StrOf(signing)))

(***************************************************************************)
(* validator.py: the rule registry (lines 103-160), in its order.  check   *)
(* names the predicate: a validate_ function, one of the lambdas           *)
(*   required        lambda v: bool(v and str(v).strip())                  *)
(*   present         lambda v: v is not None and str(v).strip() != ""      *)
(*   name_length     lambda v: 2 <= len(str(v).strip()) <= 100             *)
(*   address_length  lambda v: len(str(v).strip()) >= 5                    *)
(* the rule's own name for a lambda used once, or "cross" for check None.  *)
(***************************************************************************)
VALIDATION_RULES == <<
    [rule |-> "seller_name_required", field |-> "seller_name", check |-> "required"],
    [rule |-> "seller_name_hebrew", field |-> "seller_name", check |-> "validate_hebrew_name"],
    [rule |-> "seller_name_length", field |-> "seller_name", check |-> "name_length"],
    [rule |-> "seller_id_required", field |-> "seller_id", check |-> "required"],
    [rule |-> "seller_id_valid", field |-> "seller_id", check |-> "validate_israeli_id"],
    [rule |-> "seller_address_required", field |-> "seller_address", check |-> "required"],
    [rule |-> "seller_address_length", field |-> "seller_address", check |-> "address_length"],
    [rule |-> "seller_phone_required", field |-> "seller_phone", check |-> "required"],
    [rule |-> "seller_phone_valid", field |-> "seller_phone", check |-> "validate_israeli_phone"],
    [rule |-> "seller_email_required", field |-> "seller_email", check |-> "required"],
    [rule |-> "seller_email_valid", field |-> "seller_email", check |-> "validate_email"],
    [rule |-> "buyer_name_required", field |-> "buyer_name", check |-> "required"],
    [rule |-> "buyer_name_hebrew", field |-> "buyer_name", check |-> "validate_hebrew_name"],
    [rule |-> "buyer_name_length", field |-> "buyer_name", check |-> "name_length"],
    [rule |-> "buyer_id_required", field |-> "buyer_id", check |-> "required"],
    [rule |-> "buyer_id_valid", field |-> "buyer_id", check |-> "validate_israeli_id"],
    [rule |-> "buyer_address_required", field |-> "buyer_address", check |-> "required"],
    [rule |-> "buyer_address_length", field |-> "buyer_address", check |-> "address_length"],
    [rule |-> "buyer_phone_required", field |-> "buyer_phone", check |-> "required"],
    [rule |-> "buyer_phone_valid", field |-> "buyer_phone", check |-> "validate_israeli_phone"],
    [rule |-> "buyer_email_required", field |-> "buyer_email", check |-> "required"],
    [rule |-> "buyer_email_valid", field |-> "buyer_email", check |-> "validate_email"],
    [rule |-> "property_address_required", field |-> "property_address", check |-> "required"],
    [rule |-> "property_address_length", field |-> "property_address", check |-> "address_length"],
    [rule |-> "block_required", field |-> "block_number", check |-> "required"],
    [rule |-> "block_valid", field |-> "block_number", check |-> "validate_block_number"],
    [rule |-> "parcel_required", field |-> "parcel_number", check |-> "required"],
    [rule |-> "parcel_valid", field |-> "parcel_number", check |-> "validate_parcel_number"],
    [rule |-> "area_required", field |-> "area_sqm", check |-> "present"],
    [rule |-> "area_valid", field |-> "area_sqm", check |-> "validate_area"],
    [rule |-> "rooms_required", field |-> "rooms", check |-> "present"],
    [rule |-> "rooms_valid", field |-> "rooms", check |-> "validate_rooms"],
    [rule |-> "property_type_required", field |-> "property_type", check |-> "property_type_required"],
    [rule |-> "price_required", field |-> "price", check |-> "present"],
    [rule |-> "price_valid", field |-> "price", check |-> "validate_price"],
    [rule |-> "signing_date_required", field |-> "signing_date", check |-> "required"],
    [rule |-> "signing_date_valid", field |-> "signing_date", check |-> "validate_date"],
    [rule |-> "delivery_date_required", field |-> "delivery_date", check |-> "required"],
    [rule |-> "delivery_date_valid", field |-> "delivery_date", check |-> "validate_date"],
    [rule |-> "different_parties", field |-> "seller_id", check |-> "cross"],
    [rule |-> "delivery_after_signing", field |-> "signing_date", check |-> "cross"],
    [rule |-> "seller_marital_valid", field |-> "seller_marital_status", check |-> "seller_marital_valid"],
    [rule |-> "parking_valid", field |-> "parking", check |-> "parking_valid"],
    [rule |-> "storage_valid", field |-> "storage", check |-> "storage_valid"],
    [rule |-> "floor_valid", field |-> "floor", check |-> "floor_valid"],
    [rule |-> "price_per_sqm_reasonable", field |-> "price", check |-> "cross"],
    [rule |-> "future_signing_date", field |-> "signing_date", check |-> "future_signing_date"],
    [rule |-> "notes_length", field |-> "notes", check |-> "notes_length"],
    [rule |-> "sub_parcel_valid", field |-> "sub_parcel", check |-> "sub_parcel_valid"],
    [rule |-> "seller_name_not_buyer_name", field |-> "seller_name", check |-> "cross"] >>

PROPERTY_TYPES ==
    {<<"a", "p", "a", "r", "t", "m", "e", "n", "t">>,
     <<"p", "e", "n", "t", "h", "o", "u", "s", "e">>,
     <<"g", "a", "r", "d", "e", "n">>,
     <<"d", "u", "p", "l", "e", "x">>,
     <<"h", "o", "u", "s", "e">>,
     <<"l", "a", "n", "d">>}

MARITAL_STATUSES ==
    {<<"s", "i", "n", "g", "l", "e">>,
     <<"m", "a", "r", "r", "i", "e", "d">>,
     <<"d", "i", "v", "o", "r", "c", "e", "d">>,
     <<"w", "i", "d", "o", "w", "e", "d">>,
     <<>>}

PARKING_TYPES ==
    {<<"n", "o", "n", "e">>,
     <<"c", "o", "v", "e", "r", "e", "d">>,
     <<"u", "n", "c", "o", "v", "e", "r", "e", "d">>,
     <<"u", "n", "d", "e", "r", "g", "r", "o", "u", "n", "d">>,
     <<>>}

STORAGE_VALUES == {<<"y", "e", "s">>, <<"n", "o">>, <<>>}

\* v in (a tuple of str constants)
InStrs(v, strs) == v.t = "str" /\ v.s \in strs

\* the longest notes the notes_length rule accepts
NotesMax == 5000

\* lo <= len(t) <= hi
LenBetween(t, lo, hi) == Len(t) >= lo /\ Len(t) <= hi

\* -5 <= int(v) <= 100 for the outcome n of int(v)
FloorInRange(n) ==
    IF n.k = "raise" THEN n
    ELSE Ok(n.v.t = "int" /\ -5 <= n.v.n /\ n.v.n <= 100)

\* as NotPast, but true of every date
NotPast_any_day(d, today) ==
    IF ~d.ok THEN Raise("ValueError") ELSE Ok(TRUE)

\* strptime(...).date() >= date.today() for the outcome d of strptime
NotPast(d, today) ==
    IF ~d.ok THEN Raise("ValueError") ELSE Ok(DateGE(d, today))

\* rule["check"](value): Ok(truth value) or Raise(exception)
RuleCheck(check, v, today) ==
    CASE check = "required" -> Ok(Truthy(v) /\ Strip(StrOf(v)) # << >>)
      [] check = "present" -> Ok(v.t # "none" /\ Strip(StrOf(v)) # << >>)
      [] check = "name_length" -> Ok(LenBetween(Strip(StrOf(v)), 2, 100))
      [] check = "address_length" -> Ok(Len(Strip(StrOf(v))) >= 5)
      [] check = "validate_hebrew_name" -> validate_hebrew_name(v)
      [] check = "validate_israeli_id" -> validate_israeli_id(v)
      [] check = "validate_israeli_phone" -> validate_israeli_phone(v)
      [] check = "validate_email" -> validate_email(v)
      [] check = "validate_block_number" -> validate_block_number(v)
      [] check = "validate_parcel_number" -> validate_parcel_number(v)
      [] check = "validate_area" -> validate_area(v)
      [] check = "validate_rooms" -> validate_rooms(v)
      [] check = "validate_price" -> validate_price(v)
      [] check = "validate_date" -> validate_date(v)
      [] check = "property_type_required" -> Ok(InStrs(v, PROPERTY_TYPES))
      [] check = "seller_marital_valid" ->
            Ok(~Truthy(v) \/ InStrs(v, MARITAL_STATUSES))
      [] check = "parking_valid" -> Ok(~Truthy(v) \/ InStrs(v, PARKING_TYPES))
      [] check = "storage_valid" -> Ok(~Truthy(v) \/ InStrs(v, STORAGE_VALUES))
      [] check = "floor_valid" ->
            IF ~Truthy(v) THEN Ok(TRUE) ELSE FloorInRange(IntOf(v))
      [] check = "future_signing_date" ->
            IF ~Truthy(v) THEN Ok(TRUE) ELSE NotPast(ParseDate(StrOf(v)), today)
      [] check = "notes_length" -> Ok(~Truthy(v) \/ Len(StrOf(v)) <= NotesMax)
      [] check = "sub_parcel_valid" ->
            Ok(~Truthy(v) \/ DigitsUpTo(Strip(StrOf(v)), 4))

(***************************************************************************)
(* validator.py: run_validation (lines 163-217)                            *)
(***************************************************************************)
\* data.get(key, default)
Get(data, key, default) == IF key \in DOMAIN data THEN data[key] ELSE default

\* the bounds of a reasonable price per square metre (line 195)
PpsmMin == 5000
PpsmMax == 200000

\* ppsm = price / area; ppsm < 5000 or ppsm > 200000, for two floats
PpsmOutside(price, area) ==
    IF area.t = "float" /\ area.m = 0 THEN Raise("ZeroDivisionError")
    ELSE IF price.t = "nan" \/ area.t = "nan" THEN Ok(FALSE)
    ELSE IF price.t = "inf" THEN Ok(area.t # "inf")
    ELSE IF area.t = "inf" THEN Ok(TRUE)
    ELSE IF price.m = 0 \/ price.sg * area.sg < 0 THEN Ok(TRUE)
    ELSE LET num == price.m * Pow10(area.e)
             den == area.m * Pow10(price.e)
             q == num \div den
         IN Ok(q < PpsmMin \/ q > PpsmMax \/ (q = PpsmMax /\ num % den # 0))

\* the exceptions the price_per_sqm_reasonable branch catches (line 199)
PpsmCaught == {"ValueError", "TypeError", "ZeroDivisionError"}

\* lines 174-178
different_parties(data) ==
    IF /\ Truthy(Get(data, "seller_id", PyNone))
       /\ Truthy(Get(data, "buyer_id", PyNone))
       /\ PyEq(data["seller_id"], data["buyer_id"])
    THEN Ok("error") ELSE Ok("passed")

\* lines 179-184
delivery_after_signing(data) ==
    IF /\ Truthy(Get(data, "signing_date", PyNone))
       /\ Truthy(Get(data, "delivery_date", PyNone))
       /\ ~validate_delivery_after_signing(data["signing_date"],
                                           data["delivery_date"])
    THEN Ok("error") ELSE Ok("passed")

\* lines 185-189
seller_name_not_buyer_name(data) ==
    IF /\ Truthy(Get(data, "seller_name", PyNone))
       /\ Truthy(Get(data, "buyer_name", PyNone))
       /\ PyEq(data["seller_name"], data["buyer_name"])
    THEN Ok("warning") ELSE Ok("passed")

\* lines 191-193, for the outcomes of the two float() calls
Ratio(price, area) ==
    IF price.k = "raise" THEN price
    ELSE IF area.k = "raise" THEN area
    ELSE PpsmOutside(price.v, area.v)

\* lines 194-200, for the outcome of the comparison
PpsmVerdict(ppsm) ==
    IF ppsm.k = "raise"
    THEN (IF ppsm.exc \in PpsmCaught THEN Ok("passed") ELSE ppsm)
    ELSE IF ppsm.v THEN Ok("warning") ELSE Ok("passed")

\* lines 190-200
price_per_sqm_reasonable(data) ==
    PpsmVerdict(Ratio(FloatOf(Get(data, "price", PyInt(0))),
                      FloatOf(Get(data, "area_sqm", PyInt(1)))))

\* lines 204-209, for the outcome c of the predicate
Verdict(c) ==
    IF c.k = "raise" THEN Ok("error")
    ELSE IF ~c.v THEN Ok("error") ELSE Ok("passed")

\* lines 203-209: a rule with a predicate; except Exception makes it an error
field_rule(rule, data, today) ==
    Verdict(RuleCheck(rule.check, Get(data, rule.field, EmptyStr), today))

\* one iteration of the loop: Ok("error" | "warning" | "passed"), or Raise
ApplyRule(rule, data, today) ==
    IF rule.check = "cross"
    THEN CASE rule.rule = "different_parties" -> different_parties(data)
           [] rule.rule = "delivery_after_signing" -> delivery_after_signing(data)
           [] rule.rule = "seller_name_not_buyer_name" ->
                 seller_name_not_buyer_name(data)
           [] rule.rule = "price_per_sqm_reasonable" ->
                 price_per_sqm_reasonable(data)
    ELSE field_rule(rule, data, today)

Entry(rule) == [rule |-> rule.rule, field |-> rule.field]

\* the lists after the rule had the outcome
Appended(acc, rule, outcome) ==
    CASE outcome = "error" -> [acc EXCEPT !.errors = Append(@, Entry(rule))]
      [] outcome = "warning" -> [acc EXCEPT !.warnings = Append(@, Entry(rule))]
      [] OTHER -> [acc EXCEPT !.passed = Append(@, rule.rule)]

\* one iteration of the loop, for the outcome o of the rule
AfterRule(acc, rule, o) ==
    IF o.k = "raise" THEN o ELSE Ok(Appended(acc, rule, o.v))

\* the loop from rule i on; r is Ok(the lists built so far), or the exception
\* that ended the loop
RECURSIVE RunRules(_, _, _, _)
RunRules(data, today, i, r) ==
    IF r.k = "raise" \/ i > Len(VALIDATION_RULES) THEN r
    ELSE RunRules(data, today, i + 1,
                  AfterRule(r.v, VALIDATION_RULES[i],
                            ApplyRule(VALIDATION_RULES[i], data, today)))

\* lines 165-167
NoEntries == [errors |-> << >>, warnings |-> << >>, passed |-> << >>]

PassedOf(r) == IF r.k = "raise" THEN Unused ELSE r.v.passed

\* the local list passed when run_validation returns
PassedAtReturn(data, today) == PassedOf(RunRules(data, today, 1, Ok(NoEntries)))

\* lines 211-217 counting the rules that warned among the passed ones too
ResultWarnedPassed(r) ==
    IF r.k = "raise" THEN r
    ELSE Ok([valid |-> Len(r.v.errors) = 0,
             total_rules |-> Len(VALIDATION_RULES),
             passed |-> Len(r.v.passed) + Len(r.v.warnings),
             errors |-> r.v.errors,
             warnings |-> r.v.warnings])

run_validation_warned_passed(data, today) ==
    ResultWarnedPassed(RunRules(data, today, 1, Ok(NoEntries)))

\* lines 211-217, for the outcome r of the loop
Result(r) ==
    IF r.k = "raise" THEN r
    ELSE Ok([valid |-> Len(r.v.errors) = 0,
             total_rules |-> Len(VALIDATION_RULES),
             passed |-> Len(r.v.passed),
             errors |-> r.v.errors,
             warnings |-> r.v.warnings])

\* run_validation(data) on the day today: Ok(the Validation Result), or Raise
run_validation(data, today) == Result(RunRules(data, today, 1, Ok(NoEntries)))

(***************************************************************************)
(* data_adapter.py                                                         *)
(***************************************************************************)
\* lines 123-126, for the outcome f of float(val)
Caught(f) ==
    IF f.k = "raise" /\ f.exc \in {"ValueError", "TypeError"}
    THEN Ok(PyFloat(1, 0, 0))
    ELSE f

\* _to_num (lines 121-126): float(val), 0.0 for a ValueError or a TypeError
_to_num(val) == Caught(FloatOf(val))

\* parties[0] of a truthy value (lines 25, 36), whose get is then called
Primary(parties) ==
    CASE parties.t = "list" ->
            IF parties.items[1].t = "dict" THEN Ok(parties.items[1])
            ELSE Raise("AttributeError")
      [] parties.t = "str" -> Raise("AttributeError")
      [] OTHER -> Raise("TypeError")

\* lines 26-31
SellerFields(primary) ==
    [seller_name |-> Get(primary.d, "name", EmptyStr),
     seller_id |-> Get(primary.d, "id", EmptyStr),
     seller_address |-> Get(primary.d, "address", EmptyStr),
     seller_phone |-> Get(primary.d, "phone", EmptyStr),
     seller_email |-> Get(primary.d, "email", EmptyStr),
     seller_marital_status |-> Get(primary.d, "marital_status", EmptyStr)]

\* lines 37-42
BuyerFields(primary) ==
    [buyer_name |-> Get(primary.d, "name", EmptyStr),
     buyer_id |-> Get(primary.d, "id", EmptyStr),
     buyer_address |-> Get(primary.d, "address", EmptyStr),
     buyer_phone |-> Get(primary.d, "phone", EmptyStr),
     buyer_email |-> Get(primary.d, "email", EmptyStr),
     buyer_marital_status |-> Get(primary.d, "marital_status", EmptyStr)]

\* lines 46-55
PropertyFields(prop) ==
    [property_address |-> Get(prop.d, "address", EmptyStr),
     block_number |-> PyStr(StrOf(Get(prop.d, "block_number", EmptyStr))),
     parcel_number |-> PyStr(StrOf(Get(prop.d, "parcel_number", EmptyStr))),
     sub_parcel |-> PyStr(StrOf(Get(prop.d, "sub_parcel", EmptyStr))),
     area_sqm |-> PyStr(StrOf(Get(prop.d, "area_sqm", EmptyStr))),
     rooms |-> PyStr(StrOf(Get(prop.d, "rooms", EmptyStr))),
     floor |-> PyStr(StrOf(Get(prop.d, "floor", EmptyStr))),
     property_type |-> Get(prop.d, "property_type", PyStr(<<"a", "p", "a", "r", "t", "m", "e", "n", "t">>)),
     parking |-> Get(prop.d, "parking", PyStr(<<"n", "o", "n", "e">>)),
     storage |-> Get(prop.d, "storage", PyStr(<<"n", "o">>))]

\* lines 59-61
TransactionFields(trans) ==
    [price |-> PyStr(StrOf(Get(trans.d, "price", EmptyStr))),
     signing_date |-> Get(trans.d, "signing_date", EmptyStr),
     delivery_date |-> Get(trans.d, "delivery_date", EmptyStr)]

\* lines 24-70, for the values of the four keys
Flat(data, sellers, buyers, prop, trans) ==
    CASE Truthy(sellers) /\ Primary(sellers).k = "raise" -> Primary(sellers)
      [] Truthy(buyers) /\ Primary(buyers).k = "raise" -> Primary(buyers)
      [] prop.t # "dict" \/ trans.t # "dict" -> Raise("AttributeError")
      [] OTHER ->
         Ok((IF Truthy(sellers) THEN SellerFields(Primary(sellers).v)
             ELSE EmptyRecord)
            @@ (IF Truthy(buyers) THEN BuyerFields(Primary(buyers).v)
                ELSE EmptyRecord)
            @@ PropertyFields(prop)
            @@ TransactionFields(trans)
            @@ [notes |-> Get(data, "seller_notes",
                              Get(data, "notes", EmptyStr)),
                all_sellers |-> sellers,
                all_buyers |-> buyers])

\* the flat record built from a nested one (lines 20-70)
Flatten(data) ==
    Flat(data, Get(data, "sellers", PyList(<< >>)),
         Get(data, "buyers", PyList(<< >>)),
         Get(data, "property", EmptyDict),
         Get(data, "transaction", EmptyDict))

\* normalize_transaction that flattens whatever it is given
normalize_transaction_always_flattens(data) == Flatten(data)

\* normalize_transaction(data) (lines 7-70): Ok(the flat record), or Raise
normalize_transaction(data) ==
    IF "seller_name" \in DOMAIN data THEN Ok(data) ELSE Flatten(data)

\* the default of flat.get("all_sellers", ...) (lines 76-83)
DefaultSellers(flat) ==
    PyList(<<PyDict(
        [name |-> Get(flat, "seller_name", EmptyStr),
         id |-> Get(flat, "seller_id", EmptyStr),
         address |-> Get(flat, "seller_address", EmptyStr),
         phone |-> Get(flat, "seller_phone", EmptyStr),
         email |-> Get(flat, "seller_email", EmptyStr),
         marital_status |-> Get(flat, "seller_marital_status", EmptyStr)])>>)

\* the default of flat.get("all_buyers", ...) (lines 84-91)
DefaultBuyers(flat) ==
    PyList(<<PyDict(
        [name |-> Get(flat, "buyer_name", EmptyStr),
         id |-> Get(flat, "buyer_id", EmptyStr),
         address |-> Get(flat, "buyer_address", EmptyStr),
         phone |-> Get(flat, "buyer_phone", EmptyStr),
         email |-> Get(flat, "buyer_email", EmptyStr),
         marital_status |-> Get(flat, "buyer_marital_status", EmptyStr)])>>)

\* int(f) for the outcome f of _to_num
IntOfOutcome(f) == IF f.k = "raise" THEN f ELSE IntOf(f.v)

\* int(_to_num(val)) (lines 99, 105)
IntOfNum(val) == IntOfOutcome(_to_num(val))

\* lines 75-111, for the outcomes of the four conversions
Nested(flat, area, rooms, floor, price) ==
    CASE area.k = "raise" -> area
      [] rooms.k = "raise" -> rooms
      [] floor.k = "raise" -> floor
      [] price.k = "raise" -> price
      [] OTHER ->
         Ok([sellers |-> Get(flat, "all_sellers", DefaultSellers(flat)),
             buyers |-> Get(flat, "all_buyers", DefaultBuyers(flat)),
             property |-> PyDict(
                 [address |-> Get(flat, "property_address", EmptyStr),
                  block_number |-> Get(flat, "block_number", EmptyStr),
                  parcel_number |-> Get(flat, "parcel_number", EmptyStr),
                  sub_parcel |-> Get(flat, "sub_parcel", EmptyStr),
                  area_sqm |-> area.v,
                  rooms |-> rooms.v,
                  floor |-> floor.v,
                  property_type |-> Get(flat, "property_type",
                                        PyStr(<<"a", "p", "a", "r", "t", "m", "e", "n", "t">>)),
                  parking |-> Get(flat, "parking", PyStr(<<"n", "o", "n", "e">>)),
                  storage |-> Get(flat, "storage", PyStr(<<"n", "o">>))]),
             transaction |-> PyDict(
                 [price |-> price.v,
                  signing_date |-> Get(flat, "signing_date", EmptyStr),
                  delivery_date |-> Get(flat, "delivery_date", EmptyStr)]),
             seller_notes |-> Get(flat, "notes", EmptyStr)])

\* denormalize_transaction(flat) (lines 73-111): Ok(the nested record), or Raise
denormalize_transaction(flat) ==
    Nested(flat, _to_num(Get(flat, "area_sqm", PyInt(0))),
           _to_num(Get(flat, "rooms", PyInt(0))),
           IntOfNum(Get(flat, "floor", PyInt(0))),
           IntOfNum(Get(flat, "price", PyInt(0))))

(***************************************************************************)
(* crews/crew1_data/tools/data_cleaner.py                                   *)
(***************************************************************************)
\* "972..." becomes "0..." (lines 17-18)
LocalPrefix(cleaned) ==
    IF Len(cleaned) >= 3 /\ SubSeq(cleaned, 1, 3) = <<"9", "7", "2">>
    THEN <<"0">> \o SubSeq(cleaned, 4, Len(cleaned))
    ELSE cleaned

\* clean_phone(phone) (lines 12-19)
clean_phone(phone) ==
    IF ~Truthy(phone) THEN EmptyStr
    ELSE PyStr(LocalPrefix(RemoveChars(StrOf(phone), {" ", "-", "(", ")", "+"})))

\* clean_id(id_num) (lines 22-26)
clean_id(id_num) ==
    IF ~Truthy(id_num) THEN EmptyStr
    ELSE PyStr(Zfill(Strip(StrOf(id_num)), 9))

\* " ".join(t.split()) for a stripped t: one blank for each run of blanks
RECURSIVE JoinWords(_)
JoinWords(t) ==
    IF Len(t) <= 1 THEN t
    ELSE IF IsSpace(t[1]) /\ IsSpace(t[2]) THEN JoinWords(Tail(t))
         ELSE <<t[1]>> \o JoinWords(Tail(t))

\* clean_name(name) (lines 29-33)
clean_name(name) ==
    IF ~Truthy(name) THEN EmptyStr
    ELSE PyStr(JoinWords(Strip(StrOf(name))))

\* float(cleaned) if cleaned else 0.0 (line 41)
FloatOrZero(cleaned) ==
    IF cleaned = << >> THEN Ok(PyFloat(1, 0, 0)) ELSE ParseFloat(cleaned)

\* re.sub(r"[^\d.]", "", s) (line 40)
DigitsAndPoints(s) ==
    LET Kept(c) == IsDecimal(c) \/ c = "." IN SelectSeq(s, Kept)

\* clean_price(price) (lines 36-41): Ok(a float), or Raise
clean_price(price) ==
    IF ~Truthy(price) THEN Ok(PyFloat(1, 0, 0))
    ELSE FloatOrZero(DigitsAndPoints(StrOf(price)))

\* Stripped that leaves the value as it is
Stripped_raw(v) == v

\* str(v).strip() (lines 51-98)
Stripped(v) == PyStr(Strip(StrOf(v)))

\* str(v).strip().lower() (lines 53, 60)
StrippedLower(v) == PyStr(LowerStr(Strip(StrOf(v))))

\* f > 0 for a float f (line 101)
IsPositive(f) ==
    CASE f.t = "nan" -> FALSE
      [] f.t = "inf" -> f.sg > 0
      [] OTHER -> f.sg > 0 /\ f.m > 0

\* the float sg * m / 10^e with the shortest e
RECURSIVE Shortest(_, _, _)
Shortest(sg, m, e) ==
    IF e > 0 /\ m % 10 = 0 THEN Shortest(sg, m \div 10, e - 1)
    ELSE PyFloat(sg, m, e)

\* n / d rounded to hundredths, halves to the even one, for naturals n and
\* d > 0: whole is n \div d and rest is n % d
RoundedHundredths(whole, rest, d) ==
    LET cents == (rest * 100) \div d
        left == (rest * 100) % d
        up == 2 * left > d \/ (2 * left = d /\ cents % 2 = 1)
    IN Shortest(1, whole * 100 + cents + (IF up THEN 1 ELSE 0), 2)

\* round(n / d, 2) for naturals n and d > 0
RoundedQuotient(n, d) == RoundedHundredths(n \div d, n % d, d)

\* round(price / area, 2) for floats price >= 0 and area > 0 (line 102)
RoundedRatio(price, area) ==
    CASE price.t = "nan" -> PyNan
      [] area.t = "inf" ->
            IF price.t = "inf" THEN PyNan ELSE PyFloat(1, 0, 0)
      [] price.t = "inf" -> price
      [] OTHER -> RoundedQuotient(price.m * Pow10(area.e),
                                  area.m * Pow10(price.e))

\* lines 101-104
price_per_sqm(price, area) ==
    IF IsPositive(area) THEN RoundedRatio(price, area) ELSE PyInt(0)


\* OcrFirst that takes the client's value whatever the OCR mapping holds
OcrFirst_client_wins(client_data, ocr_data, key, default) ==
    Get(client_data, key, default)

\* ocr_data.get(key, client_data.get(key, default)) when ocr_data is truthy,
\* client_data.get(key, default) otherwise (lines 69-73, 82-85)
OcrFirst(client_data, ocr_data, key, default) ==
    IF Truthy(ocr_data)
    THEN Get(ocr_data.d, key, Get(client_data, key, default))
    ELSE Get(client_data, key, default)

\* ocr_data.get(key, default) when ocr_data is truthy, default otherwise
\* (lines 74-80, 86-92)
OcrOnly(ocr_data, key, default) ==
    IF Truthy(ocr_data) THEN Get(ocr_data.d, key, default) ELSE default

\* line 95
CleanFloor(client_data) ==
    IF Truthy(Get(client_data, "floor", PyNone))
    THEN IntOf(Get(client_data, "floor", PyInt(0)))
    ELSE Ok(PyInt(0))

\* datetime.now().isoformat() (line 106) at second sec and microsecond us of
\* 2026-03-01 12:00
IsoFormat(now) ==
    <<"2", "0", "2", "6", "-", "0", "3", "-", "0", "1", "T",
      "1", "2", ":", "0", "0", ":">>
    \o Zfill(NatToStr(now.sec), 2)
    \o (IF now.us = 0 THEN << >> ELSE <<".">> \o Zfill(NatToStr(now.us), 6))

\* merged (lines 46-108), for the outcomes of the four conversions
Merged(client_data, ocr_data, area, rooms, floor, price, now) ==
    CASE area.k = "raise" -> area
      [] rooms.k = "raise" -> rooms
      [] floor.k = "raise" -> floor
      [] price.k = "raise" -> price
      [] OTHER ->
         Ok([seller_name |-> clean_name(Get(client_data, "seller_name", EmptyStr)),
             seller_id |-> clean_id(Get(client_data, "seller_id", EmptyStr)),
             seller_address |-> Stripped(Get(client_data, "seller_address", EmptyStr)),
             seller_phone |-> clean_phone(Get(client_data, "seller_phone", EmptyStr)),
             seller_email |-> StrippedLower(Get(client_data, "seller_email", EmptyStr)),
             seller_marital_status |->
                 Stripped(Get(client_data, "seller_marital_status", EmptyStr)),
             buyer_name |-> clean_name(Get(client_data, "buyer_name", EmptyStr)),
             buyer_id |-> clean_id(Get(client_data, "buyer_id", EmptyStr)),
             buyer_address |-> Stripped(Get(client_data, "buyer_address", EmptyStr)),
             buyer_phone |-> clean_phone(Get(client_data, "buyer_phone", EmptyStr)),
             buyer_email |-> StrippedLower(Get(client_data, "buyer_email", EmptyStr)),
             property_address |->
                 Stripped(Get(client_data, "property_address", EmptyStr)),
             property_type |-> Stripped(Get(client_data, "property_type", EmptyStr)),
             parking |-> Stripped(Get(client_data, "parking", PyStr(<<"n", "o", "n", "e">>))),
             storage |-> Stripped(Get(client_data, "storage", PyStr(<<"n", "o">>))),
             notes |-> Stripped(Get(client_data, "notes", EmptyStr)),
             block_number |->
                 Stripped(OcrFirst(client_data, ocr_data, "block_number", EmptyStr)),
             parcel_number |->
                 Stripped(OcrFirst(client_data, ocr_data, "parcel_number", EmptyStr)),
             sub_parcel |->
                 Stripped(OcrFirst(client_data, ocr_data, "sub_parcel", EmptyStr)),
             area_sqm |-> area.v,
             registered_owner |-> OcrOnly(ocr_data, "registered_owner", EmptyStr),
             has_mortgage |-> OcrOnly(ocr_data, "has_mortgage", PyBool(FALSE)),
             has_lien |-> OcrOnly(ocr_data, "has_lien", PyBool(FALSE)),
             has_warning_note |-> OcrOnly(ocr_data, "has_warning_note", PyBool(FALSE)),
             rights_type |-> OcrOnly(ocr_data, "rights_type", EmptyStr),
             zoning |-> OcrOnly(ocr_data, "zoning", EmptyStr),
             has_violations |-> OcrOnly(ocr_data, "has_violations", PyBool(FALSE)),
             rooms |-> rooms.v,
             floor |-> floor.v,
             price |-> price.v,
             signing_date |-> Stripped(Get(client_data, "signing_date", EmptyStr)),
             delivery_date |-> Stripped(Get(client_data, "delivery_date", EmptyStr)),
             price_per_sqm |-> price_per_sqm(price.v, area.v),
             processed_at |-> PyStr(IsoFormat(now))])

\* merge_and_clean that takes rooms from the OCR mapping's area
merge_and_clean_ocr_rooms(client_data, ocr_data, now) ==
    Merged(client_data, ocr_data,
           FloatOf(OcrFirst(client_data, ocr_data, "area_sqm", PyInt(0))),
           FloatOf(OcrFirst(client_data, ocr_data, "area_sqm", PyInt(0))),
           CleanFloor(client_data),
           clean_price(Get(client_data, "price", PyInt(0))),
           now)

\* merge_and_clean that writes the second of the call into floor
merge_and_clean_stamped_floor(client_data, ocr_data, now) ==
    Merged(client_data, ocr_data,
           FloatOf(OcrFirst(client_data, ocr_data, "area_sqm", PyInt(0))),
           FloatOf(Get(client_data, "rooms", PyInt(0))),
           Ok(PyInt(now.sec)),
           clean_price(Get(client_data, "price", PyInt(0))),
           now)

\* merge_and_clean(client_data, ocr_data) (lines 44-108) when datetime.now()
\* gives now; ocr_data is None or a dict: Ok(the clean record), or Raise
merge_and_clean(client_data, ocr_data, now) ==
    Merged(client_data, ocr_data,
           FloatOf(OcrFirst(client_data, ocr_data, "area_sqm", PyInt(0))),
           FloatOf(Get(client_data, "rooms", PyInt(0))),
           CleanFloor(client_data),
           clean_price(Get(client_data, "price", PyInt(0))),
           now)

\* the keys of "schema" in generate_dataset_contract (lines 117-139)
SCHEMA_FIELDS ==
    {"seller_name", "seller_id", "seller_address", "seller_phone",
     "seller_email", "buyer_name", "buyer_id", "buyer_address", "buyer_phone",
     "buyer_email", "property_address", "block_number", "parcel_number",
     "sub_parcel", "area_sqm", "rooms", "floor", "property_type", "price",
     "signing_date", "delivery_date"}

(***************************************************************************)
(* crews/crew2_contract/tools/legal_compliance.py                          *)
(* An entry of COMPLIANCE_CHECKS is its id and its severity; law_ref and   *)
(* description are texts copied to the result and are left out.            *)
(***************************************************************************)
COMPLIANCE_CHECKS ==
    <<[id |-> "seller_identity", severity |-> "critical"],
      [id |-> "buyer_identity", severity |-> "critical"],
      [id |-> "property_identification", severity |-> "critical"],
      [id |-> "price_stated", severity |-> "critical"],
      [id |-> "delivery_date", severity |-> "critical"],
      [id |-> "area_specified", severity |-> "critical"],
      [id |-> "rooms_specified", severity |-> "high"],
      [id |-> "no_lien", severity |-> "critical"],
      [id |-> "no_violations", severity |-> "high"],
      [id |-> "breach_clause", severity |-> "high"],
      [id |-> "tax_clause", severity |-> "high"],
      [id |-> "mortgage_disclosure", severity |-> "high"],
      [id |-> "signing_date", severity |-> "critical"],
      [id |-> "jurisdiction_clause", severity |-> "medium"],
      [id |-> "seller_contact", severity |-> "medium"],
      [id |-> "buyer_contact", severity |-> "medium"],
      [id |-> "payment_schedule", severity |-> "high"],
      [id |-> "delivery_condition", severity |-> "medium"]>>

\* bool(d.get(f)) (lines 16-121)
Present(d, f) == Truthy(Get(d, f, PyNone))

\* float(...) > 0, for the outcome f of float() (lines 37, 51, 58)
PositiveOutcome(f) == IF f.k = "raise" THEN f ELSE Ok(IsPositive(f.v))

\* bool(d.get(f) and float(d.get(f, 0)) > 0) (lines 37, 51, 58)
PresentAndPositive(d, f) ==
    IF ~Present(d, f) THEN Ok(FALSE) ELSE PositiveOutcome(FloatOf(d[f]))

\* check["check"](data) for the check with the id (lines 16-135):
\* Ok(a boolean), or Raise
ComplianceCheck(id, d) ==
    CASE id = "seller_identity" ->
            Ok(Present(d, "seller_name") /\ Present(d, "seller_id"))
      [] id = "buyer_identity" ->
            Ok(Present(d, "buyer_name") /\ Present(d, "buyer_id"))
      [] id = "property_identification" ->
            Ok(/\ Present(d, "block_number") /\ Present(d, "parcel_number")
               /\ Present(d, "property_address"))
      [] id = "price_stated" -> PresentAndPositive(d, "price")
      [] id = "delivery_date" -> Ok(Present(d, "delivery_date"))
      [] id = "area_specified" -> PresentAndPositive(d, "area_sqm")
      [] id = "rooms_specified" -> PresentAndPositive(d, "rooms")
      [] id = "no_lien" -> Ok(~Truthy(Get(d, "has_lien", PyBool(FALSE))))
      [] id = "no_violations" ->
            Ok(~Truthy(Get(d, "has_violations", PyBool(FALSE))))
      [] id = "signing_date" -> Ok(Present(d, "signing_date"))
      [] id = "seller_contact" ->
            Ok(Present(d, "seller_phone") /\ Present(d, "seller_email"))
      [] id = "buyer_contact" ->
            Ok(Present(d, "buyer_phone") /\ Present(d, "buyer_email"))
      [] OTHER -> Ok(TRUE)

\* the entry appended to results (lines 146-152)
CheckEntry(check, passed) ==
    [id |-> check.id, severity |-> check.severity, passed |-> passed]

\* as Failures, but of every severity
Failures_any_severity(results, severity) ==
    LET Failed(r) == ~r.passed
    IN SelectSeq(results, Failed)

\* the failed entries of a severity (lines 156-157)
Failures(results, severity) ==
    LET Failed(r) == ~r.passed /\ r.severity = severity
    IN SelectSeq(results, Failed)

\* sum(1 for r in results if r["passed"]) (line 155)
PassedCount(results) == Cardinality({i \in 1..Len(results) : results[i].passed})

\* the returned dict (lines 154-168)
ComplianceResult(results, now) ==
    [compliant |-> Len(Failures(results, "critical")) = 0,
     total_checks |-> Len(results),
     passed |-> PassedCount(results),
     failed |-> Len(results) - PassedCount(results),
     critical_failures |-> Failures(results, "critical"),
     high_failures |-> Failures(results, "high"),
     details |-> results,
     timestamp |-> PyStr(IsoFormat(now))]

\* the loop (lines 144-152) when the checks with their number in raising
\* raise: the first of them ends the call
CheckAll(data, raising, now) ==
    IF raising # {}
    THEN ComplianceCheck(
             COMPLIANCE_CHECKS[CHOOSE i \in raising : \A j \in raising : i <= j].id,
             data)
    ELSE Ok(ComplianceResult(
             [i \in 1..Len(COMPLIANCE_CHECKS) |->
                 CheckEntry(COMPLIANCE_CHECKS[i],
                            ComplianceCheck(COMPLIANCE_CHECKS[i].id, data).v)],
             now))

\* run_compliance_check(data) (lines 141-168) when datetime.now() gives now:
\* Ok(the Compliance Result), or Raise
run_compliance_check(data, now) ==
    CheckAll(data,
             {i \in 1..Len(COMPLIANCE_CHECKS) :
                 ComplianceCheck(COMPLIANCE_CHECKS[i].id, data).k = "raise"},
             now)

(***************************************************************************)
(* crews/crew2_contract/tools/quality_scorer.py                            *)
(* A line of deductions is the deduction's name and its points; the text   *)
(* of the line is left out.                                                *)
(***************************************************************************)
required_fields ==
    <<"seller_name", "seller_id", "seller_address", "seller_phone",
      "seller_email", "buyer_name", "buyer_id", "buyer_address",
      "buyer_phone", "buyer_email", "property_address", "block_number",
      "parcel_number", "area_sqm", "rooms", "property_type", "price",
      "signing_date", "delivery_date">>

\* the count of the required fields that are present
MissingCount_present(data) ==
    Cardinality({i \in 1..Len(required_fields) : Present(data, required_fields[i])})

\* len(missing) (line 22)
MissingCount(data) ==
    Cardinality({i \in 1..Len(required_fields) : ~Present(data, required_fields[i])})

Min(a, b) == IF a < b THEN a ELSE b

Max(a, b) == IF a > b THEN a ELSE b

\* len(compliance_result.get(key, [])) (lines 29-30)
FailureCount(compliance_result, key) ==
    IF key \in DOMAIN compliance_result THEN Len(compliance_result[key]) ELSE 0

\* as CappedLine, but without the cap
CappedLine_uncapped(name, count, each, cap) ==
    IF count # 0 THEN <<[line |-> name, points |-> count * each]>> ELSE << >>

\* the line of a deduction that is capped (lines 23-26, 31-38)
CappedLine(name, count, each, cap) ==
    IF count # 0
    THEN <<[line |-> name, points |-> Min(count * each, cap)]>>
    ELSE << >>

\* as FlagLine, but with 5 points for every flag
FlagLine_five(data, flag, points) ==
    IF Present(data, flag) THEN <<[line |-> flag, points |-> 5]>> ELSE << >>

\* the line of a risk flag (lines 41-52)
FlagLine(data, flag, points) ==
    IF Present(data, flag) THEN <<[line |-> flag, points |-> points]>> ELSE << >>

\* max(area, 1) for a float area (line 56)
MaxWithOne(area) ==
    CASE area.t = "nan" -> area
      [] area.t = "inf" -> (IF area.sg > 0 THEN area ELSE PyFloat(1, 1, 0))
      [] OTHER -> IF area.sg < 0 \/ area.m < Pow10(area.e)
                  THEN PyFloat(1, 1, 0) ELSE area

\* ppsm < 5000 or ppsm > 200000 for the outcomes of the two float() calls
\* (lines 56-57)
PriceOutside(price, area) ==
    IF price.k = "raise" THEN price
    ELSE IF area.k = "raise" THEN area
    ELSE PpsmOutside(price.v, MaxWithOne(area.v))

\* the line of the price deduction (lines 55-61), for the outcome of the
\* comparison: Ok(the lines), or Raise
PriceLine(outside) ==
    IF outside.k = "raise"
    THEN (IF outside.exc \in {"ValueError", "TypeError"} THEN Ok(<< >>)
          ELSE outside)
    ELSE Ok(IF outside.v THEN <<[line |-> "price_per_sqm", points |-> 10]>>
            ELSE << >>)

\* the points of the lines together
RECURSIVE Points(_)
Points(lines) ==
    IF lines = << >> THEN 0 ELSE lines[1].points + Points(Tail(lines))

\* as Grade, but with the top tier above 80 only
Grade_above(score) ==
    IF score > 80 THEN "excellent"
    ELSE IF score >= 60 THEN "good"
    ELSE IF score >= 40 THEN "medium"
    ELSE "weak"

\* the grade for a score (lines 65-76)
Grade(score) ==
    IF score >= 80 THEN "excellent"
    ELSE IF score >= 60 THEN "good"
    ELSE IF score >= 40 THEN "medium"
    ELSE "weak"

\* the recommendation for a score (lines 65-76), named for its text
Recommendation(score) ==
    IF score >= 80 THEN "ready_to_sign"
    ELSE IF score >= 60 THEN "minor_corrections"
    ELSE IF score >= 40 THEN "significant_rework"
    ELSE "not_ready"

\* as QualityResult, but with the score as the deductions leave it
QualityResult_unclamped(deductions) ==
    [score |-> 100 - Points(deductions),
     grade |-> Grade(100 - Points(deductions)),
     recommendation |-> Recommendation(100 - Points(deductions)),
     deductions |-> deductions]

\* the returned dict (lines 63-83), for the lines of all deductions
QualityResult(deductions) ==
    [score |-> Max(0, Min(100, 100 - Points(deductions))),
     grade |-> Grade(Max(0, Min(100, 100 - Points(deductions)))),
     recommendation |-> Recommendation(Max(0, Min(100, 100 - Points(deductions)))),
     deductions |-> deductions]

\* lines 12-83, for the outcome of the price deduction
Scored(data, compliance_result, price_line) ==
    IF price_line.k = "raise" THEN price_line
    ELSE Ok(QualityResult(
            CappedLine("missing_fields", MissingCount(data), 3, 30)
            \o CappedLine("critical_failures",
                          FailureCount(compliance_result, "critical_failures"),
                          10, 30)
            \o CappedLine("high_failures",
                          FailureCount(compliance_result, "high_failures"),
                          5, 10)
            \o FlagLine(data, "has_mortgage", 5)
            \o FlagLine(data, "has_lien", 10)
            \o FlagLine(data, "has_violations", 5)
            \o FlagLine(data, "has_warning_note", 3)
            \o price_line.v))

\* calculate_quality_score(data, compliance_result) (lines 10-83):
\* Ok(the Quality Result), or Raise
calculate_quality_score(data, compliance_result) ==
    Scored(data, compliance_result,
           PriceLine(PriceOutside(FloatOf(Get(data, "price", PyInt(0))),
                                  FloatOf(Get(data, "area_sqm", PyInt(1))))))

(***************************************************************************)
(* crews/crew1_data/tools/ocr_processor.py                                 *)
(* The text of a document is the sequence of its phrases, each a record    *)
(* [label, value]: the label names the Hebrew word a regex looks for       *)
(* (block, parcel, sub_parcel, area, owner, rights, zoning, permit, tax,   *)
(* mortgage, pledge, lien, warning_note, violation, other) and the value   *)
(* is the text that follows it. re.search takes the first phrase that      *)
(* matches; the word for parcel is also the end of the word for            *)
(* sub-parcel. OCR is taken to be installed.                               *)
(***************************************************************************)
\* the number of the first phrase with one of the labels, 0 when none has
FirstPhrase(text, labels) ==
    IF \E i \in 1..Len(text) : text[i].label \in labels
    THEN CHOOSE i \in 1..Len(text) :
            /\ text[i].label \in labels
            /\ \A j \in 1..(i - 1) : text[j].label \notin labels
    ELSE 0

\* bool(re.search(...)) for the words with the labels (lines 53-60, 81-82)
Mentions(text, labels) == PyBool(FirstPhrase(text, labels) # 0)

\* data[key] = match.group(1) when the regex matches (lines 33-43, 49-51)
Captured(text, labels, key) ==
    IF FirstPhrase(text, labels) # 0
    THEN [k \in {key} |-> PyStr(text[FirstPhrase(text, labels)].value)]
    ELSE EmptyRecord

\* data[key] = match.group(1).strip() when the regex matches (lines 49-51,
\* 62-64, 73-79)
CapturedText(text, labels, key) ==
    IF FirstPhrase(text, labels) # 0
    THEN [k \in {key} |-> PyStr(Strip(text[FirstPhrase(text, labels)].value))]
    ELSE EmptyRecord

\* the dict of parse_tabu_document for the outcome of float() (lines 31-66)
TabuData(text, area) ==
    IF FirstPhrase(text, {"area"}) # 0 /\ area.k = "raise" THEN area
    ELSE Ok([has_mortgage |-> Mentions(text, {"mortgage", "pledge"}),
             has_lien |-> Mentions(text, {"lien"}),
             has_warning_note |-> Mentions(text, {"warning_note"})]
            @@ Captured(text, {"block"}, "block_number")
            @@ Captured(text, {"parcel", "sub_parcel"}, "parcel_number")
            @@ Captured(text, {"sub_parcel"}, "sub_parcel")
            @@ (IF FirstPhrase(text, {"area"}) # 0
                THEN [area_sqm |-> area.v] ELSE EmptyRecord)
            @@ CapturedText(text, {"owner"}, "registered_owner")
            @@ CapturedText(text, {"rights"}, "rights_type"))

\* parse_tabu_document(text) (lines 29-66): Ok(the dict), or Raise
parse_tabu_document(text) ==
    TabuData(text,
             IF FirstPhrase(text, {"area"}) # 0
             THEN FloatOf(PyStr(text[FirstPhrase(text, {"area"})].value))
             ELSE Ok(PyNone))

\* parse_municipal_document(text) (lines 69-88)
parse_municipal_document(text) ==
    Ok([has_violations |-> Mentions(text, {"violation"})]
       @@ CapturedText(text, {"zoning"}, "zoning")
       @@ CapturedText(text, {"permit"}, "building_permit")
       @@ Captured(text, {"tax"}, "property_tax"))

(***************************************************************************)
(* main.py: RealEstateFlow                                                 *)
(* A document is [tabu, exists, text]: whether its path holds the word     *)
(* tabu, whether the file exists, and the text OCR reads from it.          *)
(***************************************************************************)
\* the parser chosen by the path (lines 129-132)
Parsed(doc) ==
    IF doc.tabu THEN parse_tabu_document(doc.text)
    ELSE parse_municipal_document(doc.text)

\* self.ocr_data.update(parsed) (line 133)
Updated(ocr, parsed) == parsed @@ ocr

\* the number of the first document whose parser raises, 0 when none does
RaisingDocument(docs) ==
    IF \E i \in 1..Len(docs) : docs[i].exists /\ Parsed(docs[i]).k = "raise"
    THEN CHOOSE i \in 1..Len(docs) :
            /\ docs[i].exists /\ Parsed(docs[i]).k = "raise"
            /\ \A j \in 1..(i - 1) : ~(docs[j].exists /\ Parsed(docs[j]).k = "raise")
    ELSE 0

\* self.ocr_data after the loop over documents that parse (lines 125-133);
\* a document whose file does not exist is passed over
RECURSIVE UpdatedByAll(_, _)
UpdatedByAll(ocr, docs) ==
    IF docs = << >> THEN ocr
    ELSE IF ~docs[1].exists THEN UpdatedByAll(ocr, Tail(docs))
    ELSE UpdatedByAll(Updated(ocr, Parsed(docs[1]).v), Tail(docs))

\* self.ocr_data when the loop has ended, by its end or by an exception
OcrAfter(ocr, docs) ==
    IF RaisingDocument(docs) = 0 THEN UpdatedByAll(ocr, docs)
    ELSE UpdatedByAll(ocr, SubSeq(docs, 1, RaisingDocument(docs) - 1))

\* the loop over self.document_paths (lines 125-133): Ok(self.ocr_data
\* after the last document), or Raise
ProcessedDocuments(ocr, docs) ==
    IF RaisingDocument(docs) = 0 THEN Ok(UpdatedByAll(ocr, docs))
    ELSE Parsed(docs[RaisingDocument(docs)])

\* self.ocr_data or None (line 136)
OrNone(ocr) == IF ocr = EmptyRecord THEN PyNone ELSE PyDict(ocr)

\* the clean record of process_documents (lines 125-136), for the outcome
\* of the loop
CleanedAfter(client, ocr, now) ==
    IF ocr.k = "raise" THEN ocr ELSE merge_and_clean(client, OrNone(ocr.v), now)

(***************************************************************************)
(* The state: one call of each function under study.                       *)
(*   pc          "start" before the call, "done" after it                  *)
(*   id_number   the argument of validate_israeli_id, id_result its        *)
(*               outcome                                                   *)
(*   data        the record given to run_validation, today the value of    *)
(*               date.today() during the call, result its outcome and      *)
(*               passed_rules its local list passed when it returns        *)
(*   record      the record given to normalize_transaction, flat its       *)
(*               outcome, renested the outcome of denormalize_transaction  *)
(*               on flat, reflat the outcome of normalize_transaction on   *)
(*               renested                                                  *)
(*   client_data the record given to merge_and_clean, ocr_data the OCR     *)
(*               mapping of its first call and ocr_other that of its       *)
(*               second call, clock the value of datetime.now(), merged    *)
(*               and merged_again the outcomes of the two calls            *)
(*   clean_data  the record given to run_compliance_check and to           *)
(*               calculate_quality_score, compliance the compliance        *)
(*               result, quality the outcome of calculate_quality_score    *)
(*   document_paths  the documents of a RealEstateFlow.  In SpecFlow pc    *)
(*               is the step the flow has reached ("validated", "cleaned", *)
(*               "checked", "scored", or "failed" when a step raised),     *)
(*               client_data the record given to the flow, result the      *)
(*               outcome of run_validation, ocr_data the flow's OCR        *)
(*               mapping, merged the outcome of merge_and_clean            *)
(*   submissions the base directory of the submissions, saved the calls    *)
(*               of save_submission that have returned, each with the      *)
(*               path it returned, what it saved and the time of the       *)
(*               call.  In SpecStore pc is "saved" or "loaded" after the   *)
(*               last call, result its outcome, record the call whose      *)
(*               path was given to load_submission, clock the time         *)
(* A variable a specification does not use stays at Unused.                *)
(***************************************************************************)
VARIABLES pc, id_number, id_result, data, today, result, passed_rules,
          record, flat, renested, reflat,
          client_data, ocr_data, ocr_other, clock, merged, merged_again,
          clean_data, compliance, quality,
          document_paths, submissions, saved

validation_vars == <<data, today, result, passed_rules>>

adapter_vars == <<record, flat, renested, reflat>>

merge_vars == <<client_data, ocr_data, ocr_other, clock, merged, merged_again>>

scoring_vars == <<clean_data, compliance, quality>>

flow_vars == <<document_paths>>

store_vars == <<submissions, saved>>

vars == <<pc, id_number, id_result, validation_vars, adapter_vars,
          merge_vars, scoring_vars, flow_vars, store_vars>>

\* the variables of the other specifications hold nothing
IdUnused == id_number = Unused /\ id_result = Unused

ValidationUnused ==
    data = Unused /\ today = Unused /\ result = Unused /\ passed_rules = Unused

AdapterUnused ==
    record = Unused /\ flat = Unused /\ renested = Unused /\ reflat = Unused

MergeUnused ==
    /\ client_data = Unused /\ ocr_data = Unused /\ ocr_other = Unused
    /\ clock = Unused /\ merged = Unused /\ merged_again = Unused

ScoringUnused == clean_data = Unused /\ compliance = Unused /\ quality = Unused

FlowUnused == document_paths = Unused

StoreUnused == submissions = Unused /\ saved = Unused


(***************************************************************************)
(* SpecId: validate_israeli_id on a string                                 *)
(***************************************************************************)
\* the longest string enumerated over IdChars
MaxIdLen == 3

IdChars == {"0", "1", "8", "9", " ", "x", "sup2", "ar2"}

RECURSIVE StringsUpTo(_, _)
StringsUpTo(chars, n) ==
    IF n = 0 THEN {<< >>}
    ELSE LET shorter == StringsUpTo(chars, n - 1)
         IN shorter \cup {Append(w, c) : w \in {x \in shorter : Len(x) = n - 1},
                                         c \in chars}

KnownValidId == <<"1", "2", "3", "4", "5", "6", "7", "8", "2">>

\* the known id with one position changed to any digit
OneDigitChanged ==
    {[KnownValidId EXCEPT ![i] = Digits[d]] : i \in 1..Len(KnownValidId), d \in 1..10}

IdInputs ==
    StringsUpTo(IdChars, MaxIdLen)
    \cup OneDigitChanged
    \cup {<<" ">> \o KnownValidId \o <<" ">>,
          <<"0">> \o KnownValidId,
          KnownValidId \o <<"0">>,
          SubSeq(KnownValidId, 2, 9),
          <<"sup2">> \o SubSeq(KnownValidId, 2, 9),
          <<"1", "ar2">> \o SubSeq(KnownValidId, 3, 9),
          <<"a", "b", "c", "d", "e", "f", "g", "h", "i">>,
          <<"1", "2", "3", "4", "5">>,
          <<"-", "2", "3", "4", "5", "6", "7", "8", "2">>,
          <<"1", "2", "3", "4", "5", "6", "7", "8", ".">>}

InitId ==
    /\ pc = "start"
    /\ id_number \in {PyStr(w) : w \in IdInputs}
    /\ id_result = Unused
    /\ data = Unused /\ today = Unused /\ result = Unused
    /\ passed_rules = Unused
    /\ record = Unused /\ flat = Unused /\ renested = Unused /\ reflat = Unused
    /\ MergeUnused /\ ScoringUnused /\ FlowUnused /\ StoreUnused

CallValidateIsraeliId ==
    /\ pc = "start"
    /\ id_result' = validate_israeli_id(id_number)
    /\ pc' = "done"
    /\ UNCHANGED <<id_number, validation_vars, adapter_vars,
                 merge_vars, scoring_vars, flow_vars, store_vars>>

NextId == CallValidateIsraeliId

SpecId == InitId /\ [][NextId]_vars

(***************************************************************************)
(* SpecValidation: run_validation on a record                              *)
(***************************************************************************)
FIELDS ==
    {"seller_name", "seller_id", "seller_address", "seller_phone",
     "seller_email", "seller_marital_status", "buyer_name", "buyer_id",
     "buyer_address", "buyer_phone", "buyer_email", "property_address",
     "block_number", "parcel_number", "sub_parcel", "area_sqm",
     "rooms", "floor", "property_type", "parking",
     "storage", "price", "signing_date", "delivery_date",
     "notes"}

\* a record every rule accepts on 2026-03-01
ValidRecord ==
    [seller_name |-> PyStr(<<"alef", "alef", " ", "alef">>),
     seller_id |-> PyStr(<<"1", "2", "3", "4", "5", "6", "7", "8", "2">>),
     seller_address |-> PyStr(<<"h", "e", "r", "z", "l", " ", "1", "0">>),
     seller_phone |-> PyStr(<<"0", "5", "0", "1", "2", "3", "4", "5", "6", "7">>),
     seller_email |-> PyStr(<<"s", "@", "e", "x", ".", "c", "o", "m">>),
     seller_marital_status |-> PyStr(<<"m", "a", "r", "r", "i", "e", "d">>),
     buyer_name |-> PyStr(<<"alef", "bet">>),
     buyer_id |-> PyStr(<<"9", "8", "7", "6", "5", "4", "3", "2", "1">>),
     buyer_address |-> PyStr(<<"b", "e", "n", " ", "5", " ", "h", "a", "i", "f", "a">>),
     buyer_phone |-> PyStr(<<"0", "5", "2", "-", "9", "8", "7", "6", "5", "4", "3">>),
     buyer_email |-> PyStr(<<"b", "@", "e", "x", ".", "c", "o">>),
     property_address |-> PyStr(<<"w", "e", "i", "z", " ", "1", "5">>),
     block_number |-> PyStr(<<"6", "1", "2", "3">>),
     parcel_number |-> PyStr(<<"4", "5", "6">>),
     sub_parcel |-> PyStr(<<"8">>),
     area_sqm |-> PyStr(<<"9", "5">>),
     rooms |-> PyStr(<<"4">>),
     floor |-> PyStr(<<"3">>),
     property_type |-> PyStr(<<"a", "p", "a", "r", "t", "m", "e", "n", "t">>),
     parking |-> PyStr(<<"c", "o", "v", "e", "r", "e", "d">>),
     storage |-> PyStr(<<"y", "e", "s">>),
     price |-> PyStr(<<"2", "5", "0", "0", "0", "0", "0">>),
     signing_date |-> PyStr(<<"2", "0", "2", "6", "-", "0", "3", "-", "0", "1">>),
     delivery_date |-> PyStr(<<"2", "0", "2", "6", "-", "0", "6", "-", "0", "1">>),
     notes |-> PyStr(<< >>)]

\* values of every type, for any field
GenericPool ==
    {PyNone, EmptyStr, PyStr(<<" ">>), PyStr(<<"x", "y", "z">>),
     PyInt(0), PyInt(5), PyBig, PyFloat(1, 85, 1), PyFloat(1, 0, 0),
     PyInf(1), PyNan, PyList(<< >>), PyList(<<PyInt(1), PyInt(2)>>)}

IdPool ==
    {PyStr(<<"1", "2", "3", "4", "5", "6", "7", "8", "2">>),
     PyStr(<<"9", "8", "7", "6", "5", "4", "3", "2", "1">>),
     PyStr(<<" ", "1", "2", "3", "4", "5", "6", "7", "8", "2">>),
     PyStr(<<"1", "8">>),
     PyStr(<<"0", "0", "0", "0", "0", "0", "0", "1", "8">>),
     PyStr(<<"0">>),
     PyStr(<<"sup2">>),
     PyStr(<<"ar2", "0", "8">>)}
    \cup {PyInt(123456782), PyFloat(1, 5, 0)}

DatePool ==
    {PyStr(<<"2", "0", "2", "6", "-", "0", "3", "-", "0", "1">>),
     PyStr(<<"2", "0", "2", "6", "-", "0", "6", "-", "0", "1">>),
     PyStr(<<"2", "0", "2", "6", "-", "0", "2", "-", "2", "8">>),
     PyStr(<<"2", "0", "2", "5", "-", "1", "2", "-", "3", "1">>),
     PyStr(<<"2", "0", "2", "6", "-", "3", "-", "1">>),
     PyStr(<<"2", "0", "2", "6", "-", "0", "2", "-", "3", "0">>),
     PyStr(<<"2", "0", "2", "6", "-", "0", "3", "-", " ", "1">>),
     PyStr(<<"0", "0", "0", "0", "-", "0", "1", "-", "0", "1">>),
     PyStr(<<"0", "1", "/", "0", "3", "/", "2", "0", "2", "6">>),
     PyStr(<<"ar2", "0", "2", "6", "-", "0", "3", "-", "1", "ar2">>),
     PyStr(<<"2", "0", "2", "6", "-", "0", "ar2", "-", "0", "1">>),
     PyStr(<<"2", "0", "2", "6", "-", "0", "3", "-", "0", "ar2">>)}
    \cup {PyInt(20260301)}

NumberPool ==
    {PyStr(<<"9", "5">>),
     PyStr(<<"0">>),
     PyStr(<<"0", ".", "0">>),
     PyStr(<<"-", "9", "5">>),
     PyStr(<<"9", ".", "5">>),
     PyStr(<<"2", "5", "0", "0", "0", "0", "0">>),
     PyStr(<<"4", "7", "5", "0", "0", "0">>),
     PyStr(<<"4", "7", "4", "9", "9", "9">>),
     PyStr(<<"1", "9", "0", "0", "0", "0", "0", "0">>),
     PyStr(<<"1", "9", "0", "0", "0", "0", "0", "1">>),
     PyStr(<<"1", "0", "0", "0", "0", "0", "0", "0", "1">>),
     PyStr(<<"i", "n", "f">>),
     PyStr(<<"n", "a", "n">>),
     PyStr(<<"ar2", "5", "0", "0", "0", "0", "0">>),
     PyStr(<<"9", "ar2">>)}
    \cup {PyInt(95), PyInt(2500000), PyFloat(1, 955, 1)}

NamePool ==
    {PyStr(<<"alef", "alef", " ", "alef">>),
     PyStr(<<"alef", "bet">>),
     PyStr(<<"alef">>),
     PyStr(<<" ", "alef", "bet">>),
     PyStr(<<"a", "b">>)}

LongNotes == PyStr([i \in 1..(NotesMax + 1) |-> "a"])

FullNotes == PyStr([i \in 1..NotesMax |-> "a"])

OtherPool(f) ==
    CASE f \in {"seller_phone", "buyer_phone"} ->
           {PyStr(<<"0", "5", "0", "1", "2", "3", "4", "5", "6", "7">>),
     PyStr(<<"(", "0", "3", ")", " ", "1", "2", "3", "-", "4", "5", "6", "7">>),
     PyStr(<<"0", "1", "0", "1", "2", "3", "4", "5", "6", "7">>),
     PyStr(<<"0", "5", "0", "1", "2", "3", "4", "5", "6">>),
     PyStr(<<"0", "5", "0", "1", "2", "3", "4", "5", "6", "7", "8">>),
     PyStr(<<"0", "3", "1", "2", "3", "4", "5", "6", "7">>),
     PyStr(<<"0", "5", "ar2", "1", "2", "3", "4", "5", "6", "7">>),
     PyStr(<<"0", "ar2", "0", "1", "2", "3", "4", "5", "6", "7">>)}
      [] f \in {"seller_email", "buyer_email"} ->
           {PyStr(<<"a", "@", "b", ".", "c", "o">>),
     PyStr(<<"a", "@", "b", ".", "c">>),
     PyStr(<<"a", ".", "b", "@", "c", "-", "d", ".", "e", ".", "f", "g">>),
     PyStr(<<"@", "b", ".", "c", "o">>),
     PyStr(<<"a", "@", "@", "b", ".", "c", "o">>),
     PyStr(<<"a", "@", "b", ".", "c", "0">>),
     PyStr(<<"a", "1", "@", "b", "2", ".", "c", "o">>),
     PyStr(<<"a", "ar2", "@", "b", ".", "c", "o">>)}
      [] f \in {"seller_address", "buyer_address", "property_address"} ->
           {PyStr(<<"a", "b", "c", "d">>),
     PyStr(<<"a", "b", "c", "d", "e">>),
     PyStr(<<" ", "a", "b", "c", "d", " ">>)}
      [] f = "property_type" ->
           {PyStr(w) : w \in PROPERTY_TYPES} \cup {PyStr(<<"v", "i", "l", "l", "a">>)}
      [] f = "seller_marital_status" -> {PyStr(w) : w \in MARITAL_STATUSES}
      [] f = "parking" -> {PyStr(w) : w \in PARKING_TYPES}
      [] f = "storage" -> {PyStr(w) : w \in STORAGE_VALUES}
      [] f = "floor" ->
           {PyStr(<<"-", "5">>),
     PyStr(<<"-", "6">>),
     PyStr(<<"1", "0", "0">>),
     PyStr(<<"1", "0", "1">>),
     PyStr(<<"3", ".", "5">>),
     PyStr(<<" ", "7", " ">>),
     PyStr(<<"+", "7">>)}
           \cup {PyInt(-5), PyInt(101), PyFloat(1, 1009, 1), PyFloat(-1, 59, 1)}
      [] f \in {"block_number", "parcel_number", "sub_parcel"} ->
           {PyStr(<<"1", "2", "3", "4">>),
     PyStr(<<"1", "2", "3", "4", "5">>),
     PyStr(<<"1", "2", "3", "4", "5", "6">>),
     PyStr(<<"1", "2", "3", "4", "5", "6", "7">>),
     PyStr(<<" ", "1", "2", " ">>),
     PyStr(<<"1", "2", "a">>),
     PyStr(<<"1", "ar2", "3", "4">>)}
           \cup {PyInt(1234), PyInt(12345), PyInt(1234567)}
      [] f = "notes" -> {LongNotes, FullNotes}
      [] f \in {"seller_id", "buyer_id"} -> IdPool
      [] f \in {"signing_date", "delivery_date"} -> DatePool
      [] f \in {"price", "area_sqm", "rooms"} -> NumberPool
      [] f \in {"seller_name", "buyer_name"} -> NamePool
      [] OTHER -> {}

FieldPool(f) == GenericPool \cup OtherPool(f)

\* the pairs of fields a cross-field rule reads
CROSS_PAIRS ==
    {<<"seller_id", "buyer_id">>, <<"signing_date", "delivery_date">>,
     <<"price", "area_sqm">>, <<"seller_name", "buyer_name">>}

\* d with field f set to v / without field f
With(d, f, v) == [g \in DOMAIN d \cup {f} |-> IF g = f THEN v ELSE d[g]]

Without(d, f) == [g \in DOMAIN d \ {f} |-> d[g]]

\* the record of test_valid_data with a buyer_id that has a valid check
\* digit: a record that satisfies every rule on 2026-03-01
AcceptedRecord ==
    With(ValidRecord, "buyer_id",
         PyStr(<<"0", "0", "0", "0", "0", "0", "0", "1", "8">>))

\* the values tried in both fields of a cross-field pair
PairPool(f) == OtherPool(f) \cup {PyNone, EmptyStr}

\* one base record with one field set to a value of its pool
OneFieldInputs ==
    UNION {{With(b, f, v) : b \in {EmptyRecord, ValidRecord}, v \in FieldPool(f)} :
           f \in FIELDS}

\* one base record with both fields of a cross-field pair set
PairInputs ==
    UNION {{With(With(b, p[1], v), p[2], w) :
               b \in {EmptyRecord, ValidRecord},
               v \in PairPool(p[1]), w \in PairPool(p[2])} :
           p \in CROSS_PAIRS}

\* the same for the two ids and the two names, with a price or an area of 10**400
HugeInputs ==
    UNION {{With(With(With(ValidRecord, p[1], v), p[2], w), f, PyBig) :
               v \in PairPool(p[1]), w \in PairPool(p[2]),
               f \in {"price", "area_sqm"}} :
           p \in {<<"seller_id", "buyer_id">>, <<"seller_name", "buyer_name">>}}

ValidationInputs ==
    {EmptyRecord, ValidRecord}
    \cup {Without(ValidRecord, f) : f \in FIELDS}
    \cup OneFieldInputs \cup PairInputs \cup HugeInputs

Todays == {Date(2026, 3, 1), Date(2026, 3, 2)}

InitValidation ==
    /\ pc = "start"
    /\ data \in ValidationInputs
    /\ today \in Todays
    /\ result = Unused /\ passed_rules = Unused
    /\ id_number = Unused /\ id_result = Unused
    /\ record = Unused /\ flat = Unused /\ renested = Unused /\ reflat = Unused
    /\ MergeUnused /\ ScoringUnused /\ FlowUnused /\ StoreUnused

CallRunValidation ==
    /\ pc = "start"
    /\ result' = run_validation(data, today)
    /\ passed_rules' = PassedAtReturn(data, today)
    /\ pc' = "done"
    /\ UNCHANGED <<id_number, id_result, data, today, adapter_vars,
                 merge_vars, scoring_vars, flow_vars, store_vars>>

NextValidation == CallRunValidation

SpecValidation == InitValidation /\ [][NextValidation]_vars

(***************************************************************************)
(* SpecAdapter: normalize_transaction on a record, denormalize_transaction *)
(* on the flat record it returns, normalize_transaction on the nested      *)
(* record that returns.                                                    *)
(***************************************************************************)
Seller1 ==
    PyDict([name |-> PyStr(<<"alef", "alef", " ", "alef">>),
            id |-> PyStr(<<"1", "2", "3", "4", "5", "6", "7", "8", "2">>),
            address |-> PyStr(<<"h", "e", "r", "z", "l", " ", "1", "0">>),
            phone |-> PyStr(<<"0", "5", "0", "1", "2", "3", "4", "5", "6", "7">>),
            email |-> PyStr(<<"s", "@", "e", "x", ".", "c", "o", "m">>),
            marital_status |-> PyStr(<<"m", "a", "r", "r", "i", "e", "d">>)])

Seller2 ==
    PyDict([name |-> PyStr(<<"bet", " ", "alef">>),
            id |-> PyStr(<<"1", "8">>),
            phone |-> PyStr(<<"0", "5", "2", "1", "1", "1", "1", "1", "1", "1">>)])

Buyer1 ==
    PyDict([name |-> PyStr(<<"alef", "bet">>),
            id |-> PyStr(<<"9", "8", "7", "6", "5", "4", "3", "2", "1">>),
            address |-> PyStr(<<"b", "e", "n", " ", "5", " ", "h", "a", "i", "f", "a">>),
            phone |-> PyStr(<<"0", "5", "2", "-", "9", "8", "7", "6", "5", "4", "3">>),
            email |-> PyStr(<<"b", "@", "e", "x", ".", "c", "o">>),
            marital_status |-> PyStr(<<"s", "i", "n", "g", "l", "e">>)])

Buyer2 == PyDict([name |-> PyStr(<<"bet">>), id |-> PyInt(18)])

\* a nested record with its numbers as numbers
NestedRecord ==
    [sellers |-> PyList(<<Seller1>>),
     buyers |-> PyList(<<Buyer1>>),
     property |-> PyDict(
         [address |-> PyStr(<<"w", "e", "i", "z", " ", "1", "5">>),
          block_number |-> PyStr(<<"6", "6", "3", "8">>),
          parcel_number |-> PyStr(<<"4", "5">>),
          sub_parcel |-> PyStr(<<"8">>),
          area_sqm |-> PyInt(1500),
          rooms |-> PyFloat(1, 85, 1),
          floor |-> PyInt(10),
          property_type |-> PyStr(<<"p", "e", "n", "t", "h", "o", "u", "s", "e">>),
          parking |-> PyStr(<<"c", "o", "v", "e", "r", "e", "d">>),
          storage |-> PyStr(<<"y", "e", "s">>)]),
     transaction |-> PyDict(
         [price |-> PyInt(2200000),
          signing_date |-> PyStr(<<"2", "0", "2", "6", "-", "0", "3", "-", "0", "1">>),
          delivery_date |-> PyStr(<<"2", "0", "2", "6", "-", "0", "6", "-", "0", "1">>)]),
     seller_notes |-> PyStr(<<"a", "s", " ", "i", "s">>)]

\* the same record with its numbers as strings of the form str(float) gives
StringRecord ==
    [NestedRecord EXCEPT
        !.property = PyDict([@.d EXCEPT !.area_sqm = PyStr(<<"9", "5", ".", "5">>),
                                        !.rooms = PyStr(<<"4", ".", "0">>),
                                        !.floor = PyStr(<<"3">>)]),
        !.transaction = PyDict([@.d EXCEPT !.price = PyStr(<<"2", "5", "0", "0", "0", "0", "0">>)])]

NESTED_KEYS == {"sellers", "buyers", "property", "transaction", "seller_notes"}

PROPERTY_KEYS ==
    {"address", "block_number", "parcel_number", "sub_parcel", "area_sqm",
     "rooms", "floor", "property_type", "parking", "storage"}

TRANSACTION_KEYS == {"price", "signing_date", "delivery_date"}

\* the values tried in a field of property or transaction
AdapterPool(f) ==
    IF f \in {"area_sqm", "rooms", "floor", "price"}
    THEN {PyInt(0), PyInt(3), PyInt(-2), PyFloat(1, 955, 1), PyFloat(1, 2, 0),
          PyBig, PyInf(1), PyNan, PyNone, EmptyStr,
          PyStr(<<"3">>),
          PyStr(<<"3", ".", "0">>),
          PyStr(<<"9", "5", ".", "5">>),
          PyStr(<<"0", "0", "7">>),
          PyStr(<<"ar2", "5">>),
          PyStr(<<"1", "e">>),
          PyStr(<<" ", "4", " ">>),
          PyStr(<<"-", "2">>),
          PyStr(<<"i", "n", "f">>),
          PyStr(<<"n", "a", "n">>),
          PyStr(<<"a", "b", "c">>)}
    ELSE IF f \in {"block_number", "parcel_number", "sub_parcel"}
    THEN {PyInt(6638), PyInt(0), PyFloat(1, 45, 0), PyNone, EmptyStr,
          PyStr(<<"6", "6", "3", "8">>), PyStr(<<"0", "0", "4", "5">>), PyStr(<<" ", "7", " ">>),
          PyList(<<PyInt(1), PyInt(2)>>)}
    ELSE {PyNone, EmptyStr, PyInt(5), PyStr(<<"l", "a", "n", "d">>)}

\* a nested record with one field of property or transaction set or absent
PropertyInputs ==
    UNION {UNION {
        {[b EXCEPT !.property = PyDict(With(@.d, f, v))] : v \in AdapterPool(f)}
        \cup {[b EXCEPT !.property = PyDict(Without(@.d, f))]}
        : f \in PROPERTY_KEYS} : b \in {NestedRecord, StringRecord}}

TransactionInputs ==
    UNION {UNION {
        {[b EXCEPT !.transaction = PyDict(With(@.d, f, v))] : v \in AdapterPool(f)}
        \cup {[b EXCEPT !.transaction = PyDict(Without(@.d, f))]}
        : f \in TRANSACTION_KEYS} : b \in {NestedRecord, StringRecord}}

MaxParties == 2

\* lists of up to MaxParties parties, first and second in turn
PartyLists(first, second) ==
    {PyList([i \in 1..n |-> IF i % 2 = 1 THEN first ELSE second]) :
        n \in 0..MaxParties}
    \cup {PyList(<<second, first>>), PyList(<<EmptyDict>>), PyNone}

\* a nested record with other lists of sellers and of buyers, or without them
PartyInputs ==
    {[NestedRecord EXCEPT !.sellers = sl, !.buyers = bl] :
        sl \in PartyLists(Seller1, Seller2),
        bl \in PartyLists(Buyer1, Buyer2)}
    \cup {Without(NestedRecord, k) : k \in NESTED_KEYS}
    \cup {With(Without(NestedRecord, "seller_notes"), "notes", PyStr(<<"n">>)),
          With(NestedRecord, "notes", PyStr(<<"n">>)),
          EmptyRecord}

\* records that are not of the nested shape
MalformedInputs ==
    {[NestedRecord EXCEPT !.sellers = PyList(<<PyStr(<<"x">>)>>)],
     [NestedRecord EXCEPT !.buyers = PyStr(<<"x">>)],
     [NestedRecord EXCEPT !.sellers = PyInt(1)],
     [NestedRecord EXCEPT !.property = PyNone],
     [NestedRecord EXCEPT !.transaction = PyStr(<<"x">>)]}

\* records with the key seller_name
FlatInputs ==
    {ValidRecord, [seller_name |-> EmptyStr], [seller_name |-> PyNone],
     With(NestedRecord, "seller_name", PyStr(<<"x">>)),
     With(ValidRecord, "sellers", PyList(<<Seller2>>)),
     With(ValidRecord, "all_sellers", PyList(<<Seller1, Seller2>>)),
     With(ValidRecord, "all_sellers", PyList(<<Seller2>>)),
     With(ValidRecord, "all_buyers", PyList(<<Buyer1, Buyer2>>)),
     With(ValidRecord, "all_buyers", PyList(<< >>)),
     With(ValidRecord, "price", PyBig),
     With(ValidRecord, "price", PyInt(2500000)),
     With(ValidRecord, "floor", PyStr(<<"i", "n", "f">>)),
     Without(ValidRecord, "price")}
    \cup {With(ValidRecord, f, v) :
            f \in {"area_sqm", "price"},
            v \in {PyInt(95), PyFloat(1, 955, 1), PyStr(<<"a", "b", "c">>), PyNone}}

AdapterInputs ==
    PropertyInputs \cup TransactionInputs \cup PartyInputs
    \cup MalformedInputs \cup FlatInputs

InitAdapter ==
    /\ pc = "start"
    /\ record \in AdapterInputs
    /\ flat = Unused /\ renested = Unused /\ reflat = Unused
    /\ id_number = Unused /\ id_result = Unused
    /\ data = Unused /\ today = Unused /\ result = Unused
    /\ passed_rules = Unused
    /\ MergeUnused /\ ScoringUnused /\ FlowUnused /\ StoreUnused

CallNormalize ==
    /\ pc = "start"
    /\ flat' = normalize_transaction(record)
    /\ pc' = "normalized"
    /\ UNCHANGED <<id_number, id_result, validation_vars, record, renested, reflat,
                 merge_vars, scoring_vars, flow_vars, store_vars>>

CallDenormalize ==
    /\ pc = "normalized"
    /\ flat.k = "ok"
    /\ renested' = denormalize_transaction(flat.v)
    /\ pc' = "denormalized"
    /\ UNCHANGED <<id_number, id_result, validation_vars, record, flat, reflat,
                 merge_vars, scoring_vars, flow_vars, store_vars>>

CallNormalizeAgain ==
    /\ pc = "denormalized"
    /\ renested.k = "ok"
    /\ reflat' = normalize_transaction(renested.v)
    /\ pc' = "done"
    /\ UNCHANGED <<id_number, id_result, validation_vars, record, flat, renested,
                 merge_vars, scoring_vars, flow_vars, store_vars>>

\* normalize_transaction on its own result: a flat record without
\* seller_name is stored as it is (submission_manager.py line 56) and
\* normalized again when it is loaded (line 111)
CallNormalizeNormalized ==
    /\ pc = "normalized"
    /\ flat.k = "ok"
    /\ reflat' = normalize_transaction(flat.v)
    /\ pc' = "renormalized"
    /\ UNCHANGED <<id_number, id_result, validation_vars, record, flat, renested,
                 merge_vars, scoring_vars, flow_vars, store_vars>>

NextAdapter ==
    \/ CallNormalize
    \/ CallDenormalize
    \/ CallNormalizeAgain
    \/ CallNormalizeNormalized

SpecAdapter == InitAdapter /\ [][NextAdapter]_vars

(***************************************************************************)
(* SpecMerge: merge_and_clean on a client record, twice, with an OCR       *)
(* mapping or None each time, the clock moving on between the calls        *)
(***************************************************************************)
\* the flat record normalize_transaction makes of a submission without
\* property and transaction
NoPropertyRecord ==
    normalize_transaction([sellers |-> PyList(<<Seller1>>),
                           buyers |-> PyList(<<Buyer1>>)]).v

\* the values tried in a field of the client record
MergePool(f) ==
    CASE f \in {"price", "area_sqm", "rooms"} ->
           {PyNone, EmptyStr, PyStr(<<" ">>), PyStr(<<"a", "b", "c">>),
            PyStr(<<"1", ".", "2", ".", "3">>), PyStr(<<".">>),
            PyStr(<<"9", "5", ".", "5">>), PyStr(<<"0">>), PyStr(<<"-", "7">>),
            PyStr(<<"3", "0", "0", " ", "n", "i", "s">>),
            PyStr(<<"ar2", "5">>), PyStr(<<"i", "n", "f">>),
            PyInt(0), PyInt(7), PyFloat(1, 95, 1), PyBig, PyInf(1), PyNan,
            PyBool(TRUE), PyList(<<PyInt(1), PyInt(2)>>)}
      [] f = "floor" ->
           {PyNone, EmptyStr, PyStr(<<"a", "b", "c">>), PyStr(<<"3", ".", "5">>),
            PyStr(<<" ", "7", " ">>), PyStr(<<"0">>), PyInt(0), PyInt(-2),
            PyFloat(1, 35, 1), PyInf(1), PyNan, PyBig}
      [] f \in {"seller_name", "buyer_name", "seller_address", "notes"} ->
           {PyNone, PyStr(<<" ">>),
            PyStr(<<" ", "alef", " ", " ", " ", "bet", " ", "alef", " ">>),
            PyInt(0), PyInt(5)}
      [] f \in {"seller_id", "buyer_id"} ->
           {PyNone, PyStr(<<"1", "8">>), PyStr(<<" ", "1", "8", " ">>),
            PyStr(<<"-", "1", "8">>), PyInt(18), PyInt(0),
            PyStr(<<"1", "2", "3", "4", "5", "6", "7", "8", "9", "0">>)}
      [] f \in {"seller_phone", "buyer_phone"} ->
           {PyNone,
            PyStr(<<"+", "9", "7", "2", "-", "5", "0", " ", "1", "2", "3">>),
            PyStr(<<"(", "0", "3", ")", " ", "1", "2", "3", "-", "4", "5">>),
            PyStr(<<"9", "7">>), PyInt(972)}
      [] f \in {"seller_email", "buyer_email"} ->
           {PyNone, PyStr(<<" ", "A", "@", "b", ".", "c", "o", " ">>), PyBool(TRUE)}
      [] f \in {"block_number", "parcel_number", "sub_parcel"} ->
           {PyNone, EmptyStr, PyStr(<<"1", "0", "0">>),
            PyStr(<<" ", "1", "0", "0", " ">>), PyInt(100)}
      [] f \in {"signing_date", "delivery_date", "property_type", "parking",
                "storage", "property_address"} ->
           {PyNone, PyStr(<<" ", "x", " ">>)}
      [] OTHER -> {}

ClientInputs ==
    {EmptyRecord, ValidRecord, NoPropertyRecord}
    \cup {Without(ValidRecord, f) : f \in FIELDS}
    \cup UNION {{With(ValidRecord, f, v) : v \in MergePool(f)} : f \in FIELDS}

OcrLand ==
    PyDict([block_number |-> PyStr(<<"2", "0", "0">>),
            parcel_number |-> PyInt(45),
            sub_parcel |-> PyStr(<<" ", "9", " ">>),
            area_sqm |-> PyFloat(1, 1205, 1)])

OcrFlags ==
    PyDict([registered_owner |-> PyStr(<<"alef", "bet">>),
            has_mortgage |-> PyBool(TRUE),
            has_lien |-> PyBool(TRUE),
            has_warning_note |-> PyBool(FALSE),
            rights_type |-> PyStr(<<"o", "w", "n">>),
            zoning |-> PyStr(<<"r", "e", "s">>),
            has_violations |-> PyBool(TRUE)])

\* the OCR mappings of a call, None for a call without one
OcrInputs ==
    {PyNone, EmptyDict, OcrLand, OcrFlags, PyDict(OcrLand.d @@ OcrFlags.d),
     PyDict([block_number |-> PyStr(<<"2", "0", "0">>)]),
     PyDict([block_number |-> EmptyStr, area_sqm |-> PyInt(0)]),
     PyDict([parcel_number |-> PyNone, has_lien |-> PyInt(1)]),
     PyDict([area_sqm |-> PyStr(<<"8", "0">>)]),
     PyDict([area_sqm |-> PyStr(<<"a", "b", "c">>)])}

\* the OCR mappings of the second call after a first call with o
OtherOcrInputs(o) == {o, PyNone, OcrLand, OcrFlags}

\* the clock moves on at most MaxTicks times between the two calls
MaxTicks == 1

InitMerge ==
    /\ pc = "start"
    /\ client_data \in ClientInputs
    /\ ocr_data \in OcrInputs
    /\ ocr_other \in OtherOcrInputs(ocr_data)
    /\ clock = [sec |-> 0, us |-> 0]
    /\ merged = Unused /\ merged_again = Unused
    /\ IdUnused /\ ValidationUnused /\ AdapterUnused /\ ScoringUnused
    /\ FlowUnused /\ StoreUnused

CallMergeAndClean ==
    /\ pc = "start"
    /\ merged' = merge_and_clean(client_data, ocr_data, clock)
    /\ pc' = "merged"
    /\ UNCHANGED <<id_number, id_result, validation_vars, adapter_vars,
                   client_data, ocr_data, ocr_other, clock, merged_again,
                   scoring_vars, flow_vars, store_vars>>

\* time passes between the two calls
Tick ==
    /\ pc = "merged"
    /\ clock.sec < MaxTicks
    /\ clock' = [sec |-> clock.sec + 1, us |-> 250]
    /\ UNCHANGED <<pc, id_number, id_result, validation_vars, adapter_vars,
                   client_data, ocr_data, ocr_other, merged, merged_again,
                   scoring_vars, flow_vars, store_vars>>

CallMergeAndCleanAgain ==
    /\ pc = "merged"
    /\ merged_again' = merge_and_clean(client_data, ocr_other, clock)
    /\ pc' = "done"
    /\ UNCHANGED <<id_number, id_result, validation_vars, adapter_vars,
                   client_data, ocr_data, ocr_other, clock, merged,
                   scoring_vars, flow_vars, store_vars>>

NextMerge == CallMergeAndClean \/ Tick \/ CallMergeAndCleanAgain

SpecMerge == InitMerge /\ [][NextMerge]_vars

(***************************************************************************)
(* SpecScoring: run_compliance_check on a record, then                     *)
(* calculate_quality_score on the record and the Compliance Result         *)
(* (main.py lines 255, 273), or calculate_quality_score on the record and  *)
(* a given mapping                                                         *)
(***************************************************************************)
RISK_FLAGS == {"has_mortgage", "has_lien", "has_violations", "has_warning_note"}

\* the record with the flags of the set raised
Flagged(d, flags) == [f \in flags |-> PyBool(TRUE)] @@ d

\* the clean records merge_and_clean returns for the client records
CleanRecords ==
    {merge_and_clean(c, o, [sec |-> 0, us |-> 0]).v :
        <<c, o>> \in {x \in ClientInputs \X {PyNone, OcrLand, OcrFlags} :
                         merge_and_clean(x[1], x[2], [sec |-> 0, us |-> 0]).k = "ok"}}

\* a record without its room count and without two contact details
NoRoomsNoContact ==
    Without(Without(Without(ValidRecord, "rooms"), "seller_phone"), "buyer_email")

\* the records checked and scored: clean records, and records as received
ScoringInputs ==
    CleanRecords
    \cup ClientInputs
    \cup {Flagged(d, flags) : d \in {EmptyRecord, ValidRecord, NoPropertyRecord,
                                     NoRoomsNoContact},
                              flags \in SUBSET RISK_FLAGS}

\* the most failures of a severity in a given mapping
MaxFailures == 4

\* n failed entries of a severity
FailedEntries(n, severity) ==
    [i \in 1..n |-> [id |-> "delivery_condition", severity |-> severity,
                     passed |-> FALSE]]

\* the mappings given to calculate_quality_score without a check
GivenResults ==
    {EmptyRecord}
    \cup {[critical_failures |-> FailedEntries(c, "critical"),
           high_failures |-> FailedEntries(h, "high")] :
             c \in 0..MaxFailures, h \in 0..MaxFailures}
    \cup {[critical_failures |-> FailedEntries(c, "critical")] : c \in 1..MaxFailures}

InitScoring ==
    /\ pc = "start"
    /\ clean_data \in ScoringInputs
    /\ clock = [sec |-> 0, us |-> 0]
    /\ compliance = Unused /\ quality = Unused
    /\ client_data = Unused /\ ocr_data = Unused /\ ocr_other = Unused
    /\ merged = Unused /\ merged_again = Unused
    /\ IdUnused /\ ValidationUnused /\ AdapterUnused
    /\ FlowUnused /\ StoreUnused

CallRunComplianceCheck ==
    /\ pc = "start"
    /\ compliance' = run_compliance_check(clean_data, clock)
    /\ pc' = "checked"
    /\ UNCHANGED <<id_number, id_result, validation_vars, adapter_vars,
                   merge_vars, clean_data, quality,
                   flow_vars, store_vars>>

CallCalculateQualityScore ==
    /\ pc = "checked"
    /\ compliance.k = "ok"
    /\ quality' = calculate_quality_score(clean_data, compliance.v)
    /\ pc' = "scored"
    /\ UNCHANGED <<id_number, id_result, validation_vars, adapter_vars,
                   merge_vars, clean_data, compliance,
                   flow_vars, store_vars>>

CallCalculateQualityScoreGiven ==
    /\ pc = "start"
    /\ \E given \in GivenResults :
          /\ compliance' = Ok(given)
          /\ quality' = calculate_quality_score(clean_data, given)
    /\ pc' = "scored_given"
    /\ UNCHANGED <<id_number, id_result, validation_vars, adapter_vars,
                   merge_vars, clean_data,
                   flow_vars, store_vars>>

NextScoring ==
    \/ CallRunComplianceCheck
    \/ CallCalculateQualityScore
    \/ CallCalculateQualityScoreGiven

SpecScoring == InitScoring /\ [][NextScoring]_vars

(***************************************************************************)
(* SpecFlow: RealEstateFlow on a client record and its documents:          *)
(* validate_data, process_documents, check_compliance, score_quality. The  *)
(* steps between them write files and leave the records alone. A step      *)
(* that raises ends the flow.                                              *)
(***************************************************************************)
\* SAMPLE_CLIENT_DATA (main.py lines 44-70)
SAMPLE_CLIENT_DATA == With(ValidRecord, "notes", PyStr(<<"alef", "bet">>))

\* client_data or SAMPLE_CLIENT_DATA (main.py line 78)
OrSample(client) == IF client = EmptyRecord THEN SAMPLE_CLIENT_DATA ELSE client

\* the client records of the flow: records that satisfy every rule, with
\* other ids of both parties, and records that break a rule
FlowInputs ==
    {EmptyRecord, ValidRecord, AcceptedRecord, NoPropertyRecord}
    \cup {With(With(AcceptedRecord, "seller_id", v), "buyer_id", w) :
             v \in IdPool, w \in IdPool}
    \cup {Without(AcceptedRecord, f) : f \in FIELDS}
    \cup UNION {{With(AcceptedRecord, f, v) : v \in MergePool(f)} :
                f \in {"price", "area_sqm", "rooms", "floor"}}

\* the phrases of the documents
Phrases ==
    {[label |-> "mortgage", value |-> << >>],
     [label |-> "lien", value |-> << >>],
     [label |-> "warning_note", value |-> << >>],
     [label |-> "violation", value |-> << >>],
     [label |-> "block", value |-> <<"2", "0", "0">>],
     [label |-> "area", value |-> <<"1", "2", "0", ".", "5">>]}

\* the texts of the documents: no phrase, one phrase, or all risks
Texts ==
    {<< >>} \cup {<<p>> : p \in Phrases}
    \cup {<<[label |-> "pledge", value |-> << >>],
           [label |-> "lien", value |-> << >>],
           [label |-> "warning_note", value |-> << >>],
           [label |-> "violation", value |-> << >>]>>,
          <<[label |-> "sub_parcel", value |-> <<"9">>],
            [label |-> "parcel", value |-> <<"4", "5">>],
            [label |-> "owner", value |-> <<" ", "alef", " ">>]>>,
          <<[label |-> "area", value |-> <<"1", ".", "2", ".", "3">>]>>}

Documents ==
    {[tabu |-> t, exists |-> TRUE, text |-> x] : t \in BOOLEAN, x \in Texts}
    \cup {[tabu |-> TRUE, exists |-> FALSE,
           text |-> <<[label |-> "lien", value |-> << >>]>>]}

\* the most documents of a flow
MaxDocuments == 2

\* the lists of documents
RECURSIVE DocumentLists(_)
DocumentLists(n) ==
    IF n = 0 THEN {<< >>}
    ELSE DocumentLists(n - 1)
         \cup {<<d>> \o l : d \in Documents,
                            l \in {x \in DocumentLists(n - 1) : Len(x) = n - 1}}

\* the client records given with documents
DocumentedInputs == {AcceptedRecord, Without(AcceptedRecord, "area_sqm")}

InitFlow ==
    /\ pc = "start"
    /\ \/ client_data \in FlowInputs /\ document_paths = << >>
       \/ client_data \in DocumentedInputs
          /\ document_paths \in DocumentLists(MaxDocuments)
    /\ today \in Todays
    /\ clock = [sec |-> 0, us |-> 0]
    /\ data = Unused /\ result = Unused /\ passed_rules = Unused
    /\ ocr_data = EmptyRecord /\ ocr_other = Unused
    /\ merged = Unused /\ merged_again = Unused
    /\ clean_data = EmptyRecord /\ compliance = EmptyRecord /\ quality = EmptyRecord
    /\ IdUnused /\ AdapterUnused /\ StoreUnused

\* validate_data (main.py lines 102-120)
ValidateData ==
    /\ pc = "start"
    /\ result' = run_validation(OrSample(client_data), today)
    /\ pc' = IF run_validation(OrSample(client_data), today).k = "ok"
             THEN "validated" ELSE "failed"
    /\ UNCHANGED <<id_number, id_result, data, today, passed_rules, adapter_vars,
                   merge_vars, scoring_vars, flow_vars, store_vars>>

\* process_documents (main.py lines 122-182)
ProcessDocuments ==
    /\ pc = "validated"
    /\ ocr_data' = OcrAfter(ocr_data, document_paths)
    /\ merged' = CleanedAfter(OrSample(client_data),
                              ProcessedDocuments(ocr_data, document_paths),
                              clock)
    /\ clean_data' = IF merged'.k = "ok" THEN merged'.v ELSE clean_data
    /\ pc' = IF merged'.k = "ok" THEN "cleaned" ELSE "failed"
    /\ UNCHANGED <<id_number, id_result, validation_vars, adapter_vars,
                   client_data, ocr_other, clock, merged_again,
                   compliance, quality, flow_vars, store_vars>>

\* check_compliance (main.py lines 250-265)
CheckCompliance ==
    /\ pc = "cleaned"
    /\ compliance' = run_compliance_check(clean_data, clock)
    /\ pc' = IF compliance'.k = "ok" THEN "checked" ELSE "failed"
    /\ UNCHANGED <<id_number, id_result, validation_vars, adapter_vars,
                   merge_vars, clean_data, quality, flow_vars, store_vars>>

\* score_quality (main.py lines 267-281)
ScoreQuality ==
    /\ pc = "checked"
    /\ quality' = calculate_quality_score(clean_data, compliance.v)
    /\ pc' = IF quality'.k = "ok" THEN "scored" ELSE "failed"
    /\ UNCHANGED <<id_number, id_result, validation_vars, adapter_vars,
                   merge_vars, clean_data, compliance, flow_vars, store_vars>>

NextFlow == ValidateData \/ ProcessDocuments \/ CheckCompliance \/ ScoreQuality

SpecFlow == InitFlow /\ [][NextFlow]_vars

(***************************************************************************)
(* submission_manager.py                                                   *)
(* The directory base_dir is a function from the names of its submission   *)
(* directories to [json, files]: the data written to the directory's JSON  *)
(* file (NoFile when it has none) and the names of the files in its files  *)
(* directory.  The path of a submission is the name of its directory,      *)
(* [address, timestamp]: the sanitized address and the second of the       *)
(* clock.  The uploaded files of a call are the set of their names.        *)
(***************************************************************************)
\* the regex class [\w\u0590-\u05FF] (line 22)
IsWordChar(c) == IsAsciiLetter(c) \/ IsDigit(c) \/ IsHebrew(c) \/ c = "_"

\* re.sub(r"[^\w\u0590-\u05FF]", "_", name) (line 22)
Substituted(name) ==
    [i \in 1..Len(name) |-> IF IsWordChar(name[i]) THEN name[i] ELSE "_"]

\* re.sub(r"_+", "_", s) (line 24)
RECURSIVE Collapsed(_)
Collapsed(s) ==
    IF Len(s) <= 1 THEN s
    ELSE IF s[1] = "_" /\ s[2] = "_" THEN Collapsed(Tail(s))
    ELSE <<s[1]>> \o Collapsed(Tail(s))

\* str.strip("_") (line 24)
StripUnderscores(s) ==
    IF \A i \in 1..Len(s) : s[i] = "_" THEN << >>
    ELSE SubSeq(s,
                CHOOSE i \in 1..Len(s) :
                    s[i] # "_" /\ \A j \in 1..(i - 1) : s[j] = "_",
                CHOOSE i \in 1..Len(s) :
                    s[i] # "_" /\ \A j \in (i + 1)..Len(s) : s[j] = "_")

\* the length a directory name's address part is cut to (line 25)
DirnameMax == 50

\* safe[:50] if safe else "unnamed" (line 25)
CutOrUnnamed(safe) ==
    IF safe = << >> THEN <<"u", "n", "n", "a", "m", "e", "d">>
    ELSE SubSeq(safe, 1, Min(Len(safe), DirnameMax))

\* _sanitize_dirname(name) (lines 19-25) for the characters of a string
_sanitize_dirname(name) == CutOrUnnamed(StripUnderscores(Collapsed(Substituted(name))))

\* client_data.get("property", {}).get("address", "") (line 48)
NestedAddress(property) ==
    IF property.t = "dict" THEN Ok(Get(property.d, "address", EmptyStr))
    ELSE Raise("AttributeError")

\* x or "unknown" for the outcome of line 48 (line 49)
OrUnknown(address) ==
    IF address.k = "raise" \/ Truthy(address.v) THEN address
    ELSE Ok(PyStr(<<"u", "n", "k", "n", "o", "w", "n">>))

\* address (lines 46-50): Ok(the value), or Raise
AddressOf(client) ==
    IF Truthy(Get(client, "property_address", EmptyStr))
    THEN Ok(client.property_address)
    ELSE OrUnknown(NestedAddress(Get(client, "property", EmptyDict)))

\* the seconds-resolution time stamp and the directory name (lines 43, 51)
DirName(address, now) ==
    [address |-> _sanitize_dirname(address.s), timestamp |-> now.sec]

\* dir_name of the call (lines 43-51): Ok(the name), or Raise; re.sub
\* rejects an address that is no string
DirNameOf(address, now) ==
    IF address.k = "raise" THEN address
    ELSE IF address.v.t # "str" THEN Raise("TypeError")
    ELSE Ok(DirName(address.v, now))

\* nested (line 56): Ok(the record written), or Raise
NestedOf(client) ==
    IF "seller_name" \in DOMAIN client THEN denormalize_transaction(client)
    ELSE Ok(client)

NoFile == [t |-> "nofile"]

EmptyDirectory == [json |-> NoFile, files |-> {}]

\* submission_dir.mkdir(parents=True, exist_ok=True) (line 53): a directory
\* that exists is left as it is
MadeDirectory(fs, dir) == IF dir \in DOMAIN fs THEN fs ELSE With(fs, dir, EmptyDirectory)

\* the data file written (lines 57-59) and the uploaded files written to the
\* files directory (lines 62-79)
Written(fs, dir, nested, uploaded_files) ==
    With(fs, dir, [json |-> nested, files |-> fs[dir].files \cup uploaded_files])

\* base_dir after save_submission, for the outcomes of lines 51 and 56
SavedTo(fs, dir, nested, uploaded_files) ==
    IF dir.k = "raise" THEN fs
    ELSE IF nested.k = "raise" THEN MadeDirectory(fs, dir.v)
    ELSE Written(MadeDirectory(fs, dir.v), dir.v, nested.v, uploaded_files)

\* what save_submission returns, for the outcomes of lines 51 and 56:
\* Ok(the path of the directory), or Raise
ReturnedPath(dir, nested) ==
    IF dir.k = "raise" THEN dir
    ELSE IF nested.k = "raise" THEN nested
    ELSE dir

\* save_submission(client_data, uploaded_files) at the time now (lines
\* 28-81): base_dir after the call
save_submission_to(fs, client, uploaded_files, now) ==
    SavedTo(fs, DirNameOf(AddressOf(client), now), NestedOf(client), uploaded_files)

\* save_submission(client_data, uploaded_files) at the time now (lines
\* 28-81): Ok(the path returned), or Raise
save_submission(client, now) ==
    ReturnedPath(DirNameOf(AddressOf(client), now), NestedOf(client))

\* lines 108-125, for the outcome f of normalize_transaction(raw_data)
Loaded(fs, path, f) ==
    IF f.k = "raise" THEN f
    ELSE Ok([data |-> f.v,
             nested_data |-> fs[path].json,
             files |-> fs[path].files,
             path |-> path,
             json_path |-> path])

\* load_submission(submission_path) for the path of a directory (lines
\* 84-125): Ok(the dict), or Raise
load_submission(fs, path) ==
    IF path \notin DOMAIN fs \/ fs[path].json = NoFile
    THEN Raise("FileNotFoundError")
    ELSE Loaded(fs, path, normalize_transaction(fs[path].json))

(***************************************************************************)
(* SpecStore: calls of save_submission and load_submission on one base     *)
(* directory, while the clock moves on                                     *)
(***************************************************************************)
\* the most calls of save_submission that return
MaxSaves == 2

\* the clock moves on by at most MaxSeconds seconds, and within a second by
\* at most MaxMicros steps
MaxSeconds == 1

MaxMicros == 1

\* an address of more than DirnameMax characters that ends with c
LongAddress(c) == PyStr([i \in 1..(DirnameMax + 2) |-> IF i = DirnameMax + 2 THEN c ELSE "a"])

\* the calls of save_submission: flat and nested records, two of the same
\* address that differ in the price, an address that differs in its
\* punctuation, one longer than the cut, a record without address, one
\* whose address is no string, one whose price is no number, one whose
\* property is None; without uploaded files, or with one
StoreCalls ==
    {[client_data |-> c, uploaded_files |-> {}] :
        c \in {AcceptedRecord,
               With(AcceptedRecord, "price", PyStr(<<"7">>)),
               With(AcceptedRecord, "property_address",
                    PyStr(<<"w", "e", "i", "z", ",", " ", " ", "1", "5">>)),
               With(AcceptedRecord, "property_address", LongAddress("b")),
               With(AcceptedRecord, "property_address", PyInt(7)),
               With(AcceptedRecord, "price", PyInf(1)),
               Without(NestedRecord, "sellers"),
               With(EmptyRecord, "property", PyNone),
               EmptyRecord}}
    \cup {[client_data |-> AcceptedRecord, uploaded_files |-> {"id.png"}]}

InitStore ==
    /\ pc = "start"
    /\ submissions = EmptyRecord
    /\ saved = << >>
    /\ clock = [sec |-> 0, us |-> 0]
    /\ record = Unused /\ result = Unused
    /\ data = Unused /\ today = Unused /\ passed_rules = Unused
    /\ flat = Unused /\ renested = Unused /\ reflat = Unused
    /\ client_data = Unused /\ ocr_data = Unused /\ ocr_other = Unused
    /\ merged = Unused /\ merged_again = Unused
    /\ IdUnused /\ ScoringUnused /\ FlowUnused

\* the calls that have returned, with the call added when it returns
SavedCalls(calls, client, uploaded_files, now) ==
    IF save_submission(client, now).k = "raise" THEN calls
    ELSE Append(calls, [path |-> save_submission(client, now).v,
                        client_data |-> client,
                        nested |-> NestedOf(client).v,
                        uploaded_files |-> uploaded_files,
                        at |-> now])

\* save_submission (lines 28-81)
SaveSubmission ==
    /\ Len(saved) < MaxSaves
    /\ \E call \in StoreCalls :
          /\ submissions' = save_submission_to(submissions, call.client_data,
                                               call.uploaded_files, clock)
          /\ result' = save_submission(call.client_data, clock)
          /\ saved' = SavedCalls(saved, call.client_data, call.uploaded_files, clock)
    /\ pc' = "saved"
    /\ record' = Unused
    /\ UNCHANGED <<id_number, id_result, data, today, passed_rules,
                   flat, renested, reflat, merge_vars, scoring_vars, flow_vars>>

\* load_submission on the path an earlier save_submission returned (lines
\* 84-125)
LoadSubmission ==
    /\ \E i \in 1..Len(saved) :
          /\ record' = saved[i]
          /\ result' = load_submission(submissions, saved[i].path)
    /\ pc' = "loaded"
    /\ UNCHANGED <<id_number, id_result, data, today, passed_rules,
                   flat, renested, reflat, merge_vars, scoring_vars, flow_vars,
                   store_vars>>

\* time passes within the second
TickMicro ==
    /\ clock.us < MaxMicros
    /\ clock' = [sec |-> clock.sec, us |-> clock.us + 1]
    /\ UNCHANGED <<pc, id_number, id_result, validation_vars, adapter_vars,
                   client_data, ocr_data, ocr_other, merged, merged_again,
                   scoring_vars, flow_vars, store_vars>>

\* the next second begins
TickSecond ==
    /\ clock.sec < MaxSeconds
    /\ clock' = [sec |-> clock.sec + 1, us |-> 0]
    /\ UNCHANGED <<pc, id_number, id_result, validation_vars, adapter_vars,
                   client_data, ocr_data, ocr_other, merged, merged_again,
                   scoring_vars, flow_vars, store_vars>>

NextStore == SaveSubmission \/ LoadSubmission \/ TickMicro \/ TickSecond

SpecStore == InitStore /\ [][NextStore]_vars

(***************************************************************************)
(* Claims about validate_israeli_id (SpecId)                               *)
(***************************************************************************)
\* the decimal digit characters: 0-9 and the digits of the other scripts
DecimalDigits == {"0", "1", "2", "3", "4", "5", "6", "7", "8", "9", "ar2"}

\* the characters str.isdigit() is true of
DigitCharacters == DecimalDigits \cup {"sup2"}

\* the adjusted digit at 0-based position i of a 9-digit string
AdjustedDigit(nine, i) ==
    LET product == DigitVal(nine[i + 1]) * (IF i % 2 = 0 THEN 1 ELSE 2)
    IN IF product > 9 THEN product - 9 ELSE product

WeightedSum(nine) ==
    AdjustedDigit(nine, 0) + AdjustedDigit(nine, 1) + AdjustedDigit(nine, 2)
    + AdjustedDigit(nine, 3) + AdjustedDigit(nine, 4) + AdjustedDigit(nine, 5)
    + AdjustedDigit(nine, 6) + AdjustedDigit(nine, 7) + AdjustedDigit(nine, 8)

Returned == pc = "done" /\ result.k = "ok"

\* the number of entries of a list of the result that name the rule
Count(entries, rule) ==
    Cardinality({i \in 1..Len(entries) : entries[i].rule = rule})

InErrors(rule) == Count(result.v.errors, rule) > 0

InWarnings(rule) == Count(result.v.warnings, rule) > 0

CountedPassed(rule) == \E i \in 1..Len(passed_rules) : passed_rules[i] = rule

\* both values are non-empty and equal
SameNonEmpty(f, g) ==
    /\ f \in DOMAIN data /\ g \in DOMAIN data
    /\ Truthy(data[f]) /\ Truthy(data[g])
    /\ PyEq(data[f], data[g])

\* C2: when seller_id and buyer_id are both non-empty and equal, the result
\* has exactly one different_parties error, no different_parties warning and
\* valid = False; otherwise different_parties is counted as passed.
C2_DifferentParties ==
    pc = "done" =>
        IF SameNonEmpty("seller_id", "buyer_id")
        THEN /\ result.k = "ok"
             /\ Count(result.v.errors, "different_parties") = 1
             /\ Count(result.v.warnings, "different_parties") = 0
             /\ result.v.valid = FALSE
        ELSE /\ result.k = "ok"
             /\ CountedPassed("different_parties")

\* C2 in the calls that return (checked beside the claim: the claim fails only
\* where run_validation raises)
C2_WhenReturned ==
    Returned =>
        IF SameNonEmpty("seller_id", "buyer_id")
        THEN /\ Count(result.v.errors, "different_parties") = 1
             /\ Count(result.v.warnings, "different_parties") = 0
             /\ result.v.valid = FALSE
        ELSE CountedPassed("different_parties")

\* equal ids and a price beyond the range of a float: the call raises
C2_Raises ==
    /\ pc = "done"
    /\ SameNonEmpty("seller_id", "buyer_id")
    /\ result = Raise("OverflowError")

\* the date a field holds, when it is a string that parses as YYYY-MM-DD
FieldDate(f) ==
    IF f \in DOMAIN data /\ data[f].t = "str" THEN ParseDate(data[f].s) ELSE NoDate

DeliveryBeforeSigning ==
    LET s == FieldDate("signing_date")
        d == FieldDate("delivery_date")
    IN s.ok /\ d.ok /\ ~DateGE(d, s)

\* C3: in a result, delivery_after_signing is an error exactly when both dates
\* parse and the delivery date is strictly earlier than the signing date;
\* in every other case the rule is counted as passed.
C3_DeliveryAfterSigning ==
    Returned =>
        IF DeliveryBeforeSigning
        THEN InErrors("delivery_after_signing")
        ELSE /\ ~InErrors("delivery_after_signing")
             /\ CountedPassed("delivery_after_signing")

\* a signing date that does not parse, a delivery date that does: an error
C3_UnparsableIsError ==
    /\ Returned
    /\ "signing_date" \in DOMAIN data /\ Truthy(data["signing_date"])
    /\ ~FieldDate("signing_date").ok
    /\ FieldDate("delivery_date").ok
    /\ InErrors("delivery_after_signing")

\* C4: run_validation returns a Validation Result for every record, whatever
\* the types of its values; it never raises.
C4_NeverRaises == pc = "done" => result.k = "ok"

\* the price 10**400: float(price) raises OverflowError, which line 199 does
\* not catch
C4_Raises ==
    /\ pc = "done"
    /\ "price" \in DOMAIN data /\ data["price"] = PyBig
    /\ result = Raise("OverflowError")

RuleIndex(rule) ==
    CHOOSE i \in 1..Len(VALIDATION_RULES) : VALIDATION_RULES[i].rule = rule

\* the entries name rules of the registry, each with its field, in registry order
InRegistryOrder(entries) ==
    /\ \A i \in 1..Len(entries) :
          \E k \in 1..Len(VALIDATION_RULES) :
              /\ VALIDATION_RULES[k].rule = entries[i].rule
              /\ VALIDATION_RULES[k].field = entries[i].field
    /\ \A i, j \in 1..Len(entries) :
          i < j => RuleIndex(entries[i].rule) < RuleIndex(entries[j].rule)

\* C5: in every result each rule is accounted for exactly once: no rule id is
\* in both lists or twice in one, the entries are in registry order, and
\* passed + errors + warnings = total_rules, the same number, at least 50,
\* for every input.
C5_EveryRuleOnce ==
    Returned =>
        LET r == result.v
        IN /\ InRegistryOrder(r.errors)
           /\ InRegistryOrder(r.warnings)
           /\ \A i \in 1..Len(r.errors) : \A j \in 1..Len(r.warnings) :
                 r.errors[i].rule # r.warnings[j].rule
           /\ r.passed + Len(r.errors) + Len(r.warnings) = r.total_rules
           /\ r.total_rules = 50

\* a result with errors, a warning and passed rules
C5_Witness ==
    /\ Returned
    /\ Len(result.v.errors) >= 2
    /\ Len(result.v.warnings) >= 1
    /\ result.v.passed >= 1

\* C6: when seller_name and buyer_name are both non-empty and equal, the
\* result has seller_name_not_buyer_name as a warning and not as an error;
\* valid is true exactly when the error list is empty.
C6_SameNameWarning ==
    pc = "done" =>
        /\ SameNonEmpty("seller_name", "buyer_name") =>
              /\ result.k = "ok"
              /\ InWarnings("seller_name_not_buyer_name")
              /\ ~InErrors("seller_name_not_buyer_name")
        /\ result.k = "ok" => (result.v.valid <=> result.v.errors = << >>)

\* C6 in the calls that return
C6_WhenReturned ==
    Returned =>
        /\ SameNonEmpty("seller_name", "buyer_name") =>
              /\ InWarnings("seller_name_not_buyer_name")
              /\ ~InErrors("seller_name_not_buyer_name")
        /\ result.v.valid <=> result.v.errors = << >>

\* equal names and an area beyond the range of a float: the call raises
C6_Raises ==
    /\ pc = "done"
    /\ SameNonEmpty("seller_name", "buyer_name")
    /\ "area_sqm" \in DOMAIN data /\ data["area_sqm"] = PyBig
    /\ result = Raise("OverflowError")

\* the float a field holds: a number, or a string that float() reads
FieldFloat(f) ==
    IF f \in DOMAIN data /\ (IsNumber(data[f]) \/ data[f].t = "str")
    THEN FloatOf(data[f]) ELSE Raise("TypeError")

\* price / area_sqm can be computed from the record
RatioComputable ==
    /\ FieldFloat("price").k = "ok"
    /\ FieldFloat("area_sqm").k = "ok"
    /\ PpsmOutside(FieldFloat("price").v, FieldFloat("area_sqm").v).k = "ok"

RatioOutside ==
    PpsmOutside(FieldFloat("price").v, FieldFloat("area_sqm").v).v

\* C7: in a result, price_per_sqm_reasonable is a warning exactly when
\* price / area_sqm can be computed from the record and lies outside
\* [5000, 200000]; when it cannot be computed (zero area, missing or
\* non-numeric price or area) the rule is counted as passed; it is never an
\* error.
C7_PricePerSqm ==
    Returned =>
        /\ InWarnings("price_per_sqm_reasonable")
           <=> (RatioComputable /\ RatioOutside)
        /\ ~RatioComputable => CountedPassed("price_per_sqm_reasonable")
        /\ ~InErrors("price_per_sqm_reasonable")

\* a record without price, with an area: the ratio is computed from the
\* default price 0 and the rule warns
C7_MissingPriceWarns ==
    /\ Returned
    /\ "price" \notin DOMAIN data
    /\ "area_sqm" \in DOMAIN data
    /\ InWarnings("price_per_sqm_reasonable")

(***************************************************************************)
(* Claims about data_adapter.py (SpecAdapter)                              *)
(***************************************************************************)
\* C8: normalize_transaction on a record that has the key seller_name
\* returns that very record, unchanged, whatever else the record holds.
C8_FlatPassThrough ==
    (pc # "start" /\ "seller_name" \in DOMAIN record) => flat = Ok(record)

\* a record with seller_name and with the keys of a nested record
C8_Witness ==
    /\ pc = "normalized"
    /\ {"seller_name", "sellers", "property"} \subseteq DOMAIN record
    /\ flat = Ok(record)

\* the value is a list of exactly one party record
OneParty(v) == v.t = "list" /\ Len(v.items) = 1 /\ v.items[1].t = "dict"

\* the record is nested, with exactly one seller and one buyer
OneSellerOneBuyer ==
    /\ "seller_name" \notin DOMAIN record
    /\ {"sellers", "buyers", "property", "transaction"} \subseteq DOMAIN record
    /\ OneParty(record.sellers) /\ OneParty(record.buyers)
    /\ record.property.t = "dict" /\ record.transaction.t = "dict"
    /\ "name" \in DOMAIN record.sellers.items[1].d
    /\ "name" \in DOMAIN record.buyers.items[1].d
    /\ "block_number" \in DOMAIN record.property.d

\* denormalize(normalize(nested)) has the names and the block number
NamesAndBlockKept ==
    /\ renested.v.sellers.items[1].d.name = record.sellers.items[1].d.name
    /\ renested.v.buyers.items[1].d.name = record.buyers.items[1].d.name
    /\ renested.v.property.d.block_number
       = PyStr(StrOf(record.property.d.block_number))

\* C9: for a nested record with exactly one seller and one buyer,
\* denormalize(normalize(nested)) has sellers[0].name and buyers[0].name of
\* the original and property.block_number equal to str of the original's.
C9_RoundTripNested ==
    (pc \in {"denormalized", "done"} /\ OneSellerOneBuyer) =>
        renested.k = "ok" /\ NamesAndBlockKept

\* C9 in the calls of denormalize_transaction that return
C9_WhenReturned ==
    (pc \in {"denormalized", "done"} /\ OneSellerOneBuyer /\ renested.k = "ok")
        => NamesAndBlockKept

\* the nested record whose price is the string inf is flattened, and
\* denormalize_transaction raises on the flat record
C9_Raises ==
    /\ pc = "denormalized"
    /\ OneSellerOneBuyer
    /\ Get(record.transaction.d, "price", PyNone) = PyStr(<<"i", "n", "f">>)
    /\ flat.k = "ok"
    /\ renested = Raise("OverflowError")

PRIMARY_FIELDS ==
    {"seller_name", "seller_id", "seller_address", "seller_phone",
     "seller_email", "seller_marital_status",
     "buyer_name", "buyer_id", "buyer_address", "buyer_phone",
     "buyer_email", "buyer_marital_status"}

PROPERTY_FIELDS ==
    {"property_address", "block_number", "parcel_number", "sub_parcel",
     "area_sqm", "rooms", "floor", "property_type", "parking", "storage"}

TRANSACTION_FIELDS == {"price", "signing_date", "delivery_date"}

\* two flat records have the field alike: the same value, or both lack it
Agree(a, b, f) ==
    IF f \in DOMAIN a THEN f \in DOMAIN b /\ a[f] = b[f] ELSE f \notin DOMAIN b

\* C10: normalize(denormalize(normalize(n))) agrees with normalize(n) on
\* every primary-party field and every property and transaction field.
C10_RoundTripFlat ==
    (pc = "done" /\ "seller_name" \notin DOMAIN record) =>
        /\ reflat.k = "ok"
        /\ \A f \in PRIMARY_FIELDS \cup PROPERTY_FIELDS \cup TRANSACTION_FIELDS :
              Agree(reflat.v, flat.v, f)

\* the fields other than area_sqm, rooms, floor and price do agree
C10_OtherFieldsAgree ==
    (pc = "done" /\ "seller_name" \notin DOMAIN record) =>
        /\ reflat.k = "ok"
        /\ \A f \in (PRIMARY_FIELDS \cup PROPERTY_FIELDS \cup TRANSACTION_FIELDS)
                    \ {"area_sqm", "rooms", "floor", "price"} :
              Agree(reflat.v, flat.v, f)

\* the area 1500 of the nested record is "1500" after normalize and "1500.0"
\* after denormalize and normalize
C10_AreaChanged ==
    /\ pc = "done"
    /\ record = NestedRecord
    /\ flat.v.area_sqm = PyStr(<<"1", "5", "0", "0">>)
    /\ reflat.v.area_sqm = PyStr(<<"1", "5", "0", "0", ".", "0">>)

(***************************************************************************)
(* Claims about several parties and about denormalize_transaction          *)
(* (SpecAdapter)                                                           *)
(***************************************************************************)
\* the value is a list of exactly two party records with a name and an id
TwoParties(v) ==
    /\ v.t = "list" /\ Len(v.items) = 2
    /\ \A i \in 1..2 : v.items[i].t = "dict"
                       /\ {"name", "id"} \subseteq DOMAIN v.items[i].d

\* the record is nested, with two sellers and two buyers
TwoSellersTwoBuyers ==
    /\ "seller_name" \notin DOMAIN record
    /\ {"sellers", "buyers"} \subseteq DOMAIN record
    /\ TwoParties(record.sellers) /\ TwoParties(record.buyers)
    /\ Get(record, "property", EmptyDict).t = "dict"
    /\ Get(record, "transaction", EmptyDict).t = "dict"

\* the flat record has the key with the value
Has(d, key, value) == key \in DOMAIN d /\ d[key] = value

\* the flat fields of the first parties and the two lists
PrimaryAndLists ==
    /\ flat.k = "ok"
    /\ Has(flat.v, "seller_name", record.sellers.items[1].d.name)
    /\ Has(flat.v, "seller_id", record.sellers.items[1].d.id)
    /\ Has(flat.v, "buyer_name", record.buyers.items[1].d.name)
    /\ Has(flat.v, "buyer_id", record.buyers.items[1].d.id)
    /\ Has(flat.v, "all_sellers", record.sellers)
    /\ Has(flat.v, "all_buyers", record.buyers)

\* the flat fields of the second parties
SecondParties ==
    /\ Has(flat.v, "seller2_name", record.sellers.items[2].d.name)
    /\ Has(flat.v, "seller2_id", record.sellers.items[2].d.id)
    /\ Has(flat.v, "buyer2_name", record.buyers.items[2].d.name)
    /\ Has(flat.v, "buyer2_id", record.buyers.items[2].d.id)

\* C11: normalize_transaction of a nested record with two sellers and two
\* buyers gives seller_name/seller_id and buyer_name/buyer_id of the first
\* party of each list, seller2_name/seller2_id and buyer2_name/buyer2_id of
\* the second, and both parties of each side in all_sellers and all_buyers.
C11_MultipleParties ==
    (pc # "start" /\ TwoSellersTwoBuyers) => PrimaryAndLists /\ SecondParties

\* the part of C11 about the first parties and the lists
C11_PrimaryAndLists ==
    (pc # "start" /\ TwoSellersTwoBuyers) => PrimaryAndLists

\* two sellers and two buyers are flattened to a record without one of the
\* keys seller2_name, seller2_id, buyer2_name, buyer2_id
C11_NoSecondParty ==
    /\ pc = "normalized"
    /\ TwoSellersTwoBuyers
    /\ PrimaryAndLists
    /\ DOMAIN flat.v \cap {"seller2_name", "seller2_id",
                           "buyer2_name", "buyer2_id"} = {}

\* the flat record given to denormalize_transaction has the five fields
FlatWithFields ==
    /\ pc \in {"denormalized", "done"}
    /\ {"seller_name", "buyer_name", "property_address", "price",
        "signing_date"} \subseteq DOMAIN flat.v

\* the first party of the list has the name
FirstNamed(parties, name) ==
    /\ parties.t = "list" /\ Len(parties.items) >= 1
    /\ parties.items[1].t = "dict"
    /\ Has(parties.items[1].d, "name", name)

\* the text of a natural number, as str() writes it
IsNaturalText(v) ==
    /\ v.t = "str" /\ Len(v.s) >= 1
    /\ \A i \in 1..Len(v.s) : v.s[i] \in DecimalDigits \ {"ar2"}
    /\ Len(v.s) > 1 => v.s[1] # "0"

\* the nested price is the number the flat price stands for
PriceKept(nested_price, flat_price) ==
    /\ nested_price.t = "int"
    /\ flat_price.t = "int" => nested_price = flat_price
    /\ IsNaturalText(flat_price) => StrOf(nested_price) = flat_price.s

\* the nested record has the address, the price and the signing date
PropertyAndTransactionKept ==
    /\ renested.k = "ok"
    /\ renested.v.property.d.address = flat.v.property_address
    /\ PriceKept(renested.v.transaction.d.price, flat.v.price)
    /\ renested.v.transaction.d.signing_date = flat.v.signing_date

\* C12: denormalize_transaction of a flat record returns a nested record
\* whose first seller and first buyer have seller_name and buyer_name, whose
\* property.address is property_address, whose transaction.price is the
\* number price stands for and whose transaction.signing_date is
\* signing_date, also when the flat record has all_sellers / all_buyers.
C12_FlatToNested ==
    FlatWithFields =>
        /\ PropertyAndTransactionKept
        /\ FirstNamed(renested.v.sellers, flat.v.seller_name)
        /\ FirstNamed(renested.v.buyers, flat.v.buyer_name)

\* C12 in the calls that return, for the address, price and signing date
C12_WhenReturned ==
    (FlatWithFields /\ renested.k = "ok") => PropertyAndTransactionKept

\* C12 in the calls that return, for the names of a flat record without
\* the lists all_sellers and all_buyers
C12_NamesWithoutLists ==
    (FlatWithFields /\ renested.k = "ok"
     /\ DOMAIN flat.v \cap {"all_sellers", "all_buyers"} = {})
        => /\ FirstNamed(renested.v.sellers, flat.v.seller_name)
           /\ FirstNamed(renested.v.buyers, flat.v.buyer_name)

\* denormalize_transaction raises on the valid flat record with the price
\* 10**400
C12_Raises ==
    /\ pc = "denormalized"
    /\ record = With(ValidRecord, "price", PyBig)
    /\ flat = Ok(record)
    /\ renested = Raise("OverflowError")

\* the first seller of the nested record is the first of all_sellers, whose
\* name is not seller_name
C12_OtherFirstSeller ==
    /\ pc = "denormalized"
    /\ record = With(ValidRecord, "all_sellers", PyList(<<Seller2>>))
    /\ renested.k = "ok"
    /\ renested.v.sellers.items[1].d.name # flat.v.seller_name

(***************************************************************************)
(* Claims about merge_and_clean (SpecMerge)                                *)
(***************************************************************************)
\* the OCR mapping of a call has the field
Supplied(ocr, f) == ocr.t = "dict" /\ f \in DOMAIN ocr.d

\* the value the land-registry field is taken from: the OCR mapping's when
\* it has the field, the client's otherwise
LandSource(client, ocr, f, default) ==
    IF Supplied(ocr, f) THEN ocr.d[f]
    ELSE IF f \in DOMAIN client THEN client[f] ELSE default

\* the clean record has the land-registry fields of their sources, as
\* stripped text and, for the area, as a float
LandFromSource(clean, client, ocr) ==
    /\ \A f \in {"block_number", "parcel_number", "sub_parcel"} :
          clean[f] = PyStr(Strip(StrOf(LandSource(client, ocr, f, EmptyStr))))
    /\ Ok(clean.area_sqm) = FloatOf(LandSource(client, ocr, "area_sqm", PyInt(0)))

\* C13: in the clean record of merge_and_clean, block_number, parcel_number,
\* sub_parcel and area_sqm are the OCR mapping's whenever it has the field,
\* and the client's when there is no OCR mapping or it lacks the field.
C13_OcrPrecedence ==
    /\ (pc # "start" /\ merged.k = "ok")
          => LandFromSource(merged.v, client_data, ocr_data)
    /\ (pc = "done" /\ merged_again.k = "ok")
          => LandFromSource(merged_again.v, client_data, ocr_other)

\* block 6123 of the client gives way to block 200 of the OCR mapping, and
\* stays in the call without an OCR mapping
C13_Witness ==
    /\ pc = "done"
    /\ client_data = ValidRecord /\ ocr_data = OcrLand /\ ocr_other = PyNone
    /\ merged.v.block_number = PyStr(<<"2", "0", "0">>)
    /\ merged.v.area_sqm = PyFloat(1, 1205, 1)
    /\ merged_again.v.block_number = PyStr(<<"6", "1", "2", "3">>)
    /\ merged_again.v.area_sqm = PyFloat(1, 95, 0)

CLIENT_ONLY_FIELDS ==
    {"seller_name", "seller_id", "seller_address", "seller_phone",
     "seller_email", "seller_marital_status", "buyer_name", "buyer_id",
     "buyer_address", "buyer_phone", "buyer_email", "property_address",
     "property_type", "parking", "storage", "rooms", "floor", "price",
     "signing_date", "delivery_date", "notes"}

\* C14: two calls of merge_and_clean with the same client record and any
\* two OCR mappings (or none) give the same names, ids, addresses, phones,
\* emails, marital status, property address and type, parking, storage,
\* rooms, floor, price, dates and notes.
C14_ClientOnly ==
    (pc = "done" /\ merged.k = "ok" /\ merged_again.k = "ok") =>
        \A f \in CLIENT_ONLY_FIELDS : merged.v[f] = merged_again.v[f]

\* two calls with different OCR mappings differ in the block number
C14_Witness ==
    /\ pc = "done"
    /\ ocr_data # ocr_other
    /\ merged.k = "ok" /\ merged_again.k = "ok"
    /\ merged.v.block_number # merged_again.v.block_number
    /\ merged.v.price = merged_again.v.price

\* an empty string, or one without a digit that float() does not read
NonNumeric(v) ==
    /\ v.t = "str"
    /\ \A i \in 1..Len(v.s) : v.s[i] \notin DecimalDigits
    /\ Strip(v.s) \notin {<<"i", "n", "f">>, <<"n", "a", "n">>}

\* the client's field is an empty or non-numeric string and the clean
\* record takes the field from the client
MalformedField(f) ==
    /\ f \in DOMAIN client_data
    /\ NonNumeric(client_data[f])
    /\ f = "area_sqm" => ~Supplied(ocr_data, f)

\* C15: merge_and_clean does not raise when the client's price, area_sqm or
\* rooms is an empty or non-numeric string: it returns a clean record in
\* which that field is 0.
C15_MalformedToZero ==
    \A f \in {"price", "area_sqm", "rooms"} :
        (pc # "start" /\ MalformedField(f)) =>
            merged.k = "ok" /\ PyEq(merged.v[f], PyInt(0))

\* the part of C15 that holds: a price without digits and points
C15_PriceToZero ==
    (pc # "start" /\ MalformedField("price") /\ merged.k = "ok"
     /\ \A i \in 1..Len(client_data.price.s) : client_data.price.s[i] # ".")
        => merged.v.price = PyFloat(1, 0, 0)

\* the flat record of a submission without property has the area and the
\* rooms "", and merge_and_clean raises on it
C15_Raises ==
    /\ pc = "merged"
    /\ client_data = NoPropertyRecord /\ ocr_data = PyNone
    /\ client_data.area_sqm = EmptyStr /\ client_data.rooms = EmptyStr
    /\ merged = Raise("ValueError")

\* the record has every field of the schema, none of them None
HasSchemaFields(clean) ==
    /\ SCHEMA_FIELDS \subseteq DOMAIN clean
    /\ \A f \in SCHEMA_FIELDS : clean[f] # PyNone

\* C16: the clean record merge_and_clean returns has every field of the
\* schema of generate_dataset_contract, each with a value that is not None,
\* whatever the client record (also with fields absent) and the OCR mapping.
C16_SchemaFields ==
    /\ (pc # "start" /\ merged.k = "ok") => HasSchemaFields(merged.v)
    /\ (pc = "done" /\ merged_again.k = "ok") => HasSchemaFields(merged_again.v)

\* the empty client record with an OCR mapping that holds a None
C16_Witness ==
    /\ pc = "merged"
    /\ client_data = EmptyRecord
    /\ Supplied(ocr_data, "parcel_number") /\ ocr_data.d.parcel_number = PyNone
    /\ merged.k = "ok"
    /\ merged.v.parcel_number = PyStr(<<"N", "o", "n", "e">>)
    /\ merged.v.seller_name = EmptyStr /\ merged.v.rooms = PyFloat(1, 0, 0)

\* the two outcomes are the same, processed_at aside
SameButTimestamp(a, b) ==
    IF a.k = "ok" /\ b.k = "ok"
    THEN /\ DOMAIN a.v = DOMAIN b.v
         /\ \A f \in DOMAIN a.v \ {"processed_at"} : a.v[f] = b.v[f]
    ELSE a = b

\* a step leaves the client record and the OCR mappings as they are
InputsKept ==
    /\ client_data' = client_data
    /\ ocr_data' = ocr_data
    /\ ocr_other' = ocr_other

\* C17 as stated: two calls of merge_and_clean with equal client records and
\* equal OCR mappings return equal clean records, and no call modifies the
\* client record or the OCR mapping.
C17_Deterministic ==
    [][/\ (pc' = "done" /\ ocr_other = ocr_data) => merged_again' = merged
       /\ InputsKept]_vars

\* C17, amended: two calls of merge_and_clean with equal client records and
\* equal OCR mappings return clean records equal in every field but
\* processed_at, the time of the call, or raise the same exception, and no
\* call modifies the client record or the OCR mapping.
C17_DeterministicButTimestamp ==
    [][/\ (pc' = "done" /\ ocr_other = ocr_data)
             => SameButTimestamp(merged, merged_again')
       /\ InputsKept]_vars

\* two calls with the same inputs, a second apart, differ in processed_at
\* and in nothing else
C17_Witness ==
    /\ pc = "done"
    /\ client_data = ValidRecord /\ ocr_other = ocr_data /\ ocr_data = OcrLand
    /\ merged.k = "ok" /\ merged_again.k = "ok"
    /\ merged.v.processed_at # merged_again.v.processed_at
    /\ SameButTimestamp(merged, merged_again)


(***************************************************************************)
(* Claims about run_compliance_check (SpecScoring)                         *)
(***************************************************************************)
\* run_compliance_check has returned its Compliance Result
Checked == pc \in {"checked", "scored"} /\ compliance.k = "ok"

\* the numbers of the checks of a severity that fail on the record
FailedChecks(d, severity) ==
    {i \in 1..Len(COMPLIANCE_CHECKS) :
        /\ COMPLIANCE_CHECKS[i].severity = severity
        /\ ComplianceCheck(COMPLIANCE_CHECKS[i].id, d) = Ok(FALSE)}

\* the list holds the checks with the numbers, each once, as failed entries
\* of the severity
HoldsExactly(list, numbers, severity) ==
    /\ Len(list) = Cardinality(numbers)
    /\ {list[i].id : i \in 1..Len(list)} = {COMPLIANCE_CHECKS[i].id : i \in numbers}
    /\ \A i \in 1..Len(list) : ~list[i].passed /\ list[i].severity = severity

\* C18: in every result of run_compliance_check, compliant is true exactly
\* when no check of critical severity failed, so failed checks of high or
\* medium severity alone leave it true, and critical_failures and
\* high_failures hold exactly the failed checks of their severity.
C18_CompliantIffNoCritical ==
    Checked =>
        /\ compliance.v.compliant = (FailedChecks(clean_data, "critical") = {})
        /\ HoldsExactly(compliance.v.critical_failures,
                        FailedChecks(clean_data, "critical"), "critical")
        /\ HoldsExactly(compliance.v.high_failures,
                        FailedChecks(clean_data, "high"), "high")

\* a result that is compliant with failed checks of high and of medium
\* severity: the room count, the building violations, the contact details
C18_Witness ==
    /\ Checked
    /\ compliance.v.compliant
    /\ {"rooms_specified", "no_violations"}
           \subseteq {r.id : r \in {compliance.v.high_failures[i] :
                                      i \in 1..Len(compliance.v.high_failures)}}
    /\ FailedChecks(clean_data, "medium") # {}


\* the field of the record is a non-numeric string
NonNumericIn(d, f) ==
    f \in DOMAIN d /\ d[f].t = "str" /\ Truthy(d[f]) /\ FloatOf(d[f]).k = "raise"

\* the record has a non-numeric string in price, area_sqm or rooms
NonNumericAmount(d) ==
    \E f \in {"price", "area_sqm", "rooms"} : NonNumericIn(d, f)

\* the entry of the check with the id in the Compliance Result
EntryOf(returned, id) ==
    CHOOSE r \in {returned.details[i] : i \in 1..Len(returned.details)} : r.id = id

\* the checks of the amounts that are non-numeric strings are reported failed
AmountsReportedFailed(d, returned) ==
    /\ NonNumericIn(d, "price") => ~EntryOf(returned, "price_stated").passed
    /\ NonNumericIn(d, "area_sqm") => ~EntryOf(returned, "area_specified").passed
    /\ NonNumericIn(d, "rooms") => ~EntryOf(returned, "rooms_specified").passed

\* C19: run_compliance_check never raises on a data-quality problem: for
\* any record, one with a non-numeric string in price, area_sqm or rooms
\* included, it returns a Compliance Result, and the result reports the
\* check of such a field as failed.
C19_NeverRaises ==
    pc \in {"checked", "scored"} =>
        /\ compliance.k = "ok"
        /\ NonNumericAmount(clean_data) =>
              AmountsReportedFailed(clean_data, compliance.v)

\* the check of a record whose rooms is the string abc has raised ValueError
C19_Raises ==
    /\ pc = "checked"
    /\ "rooms" \in DOMAIN clean_data
    /\ clean_data["rooms"] = PyStr(<<"a", "b", "c">>)
    /\ compliance = Raise("ValueError")

\* C19, what holds: the check returns for every record whose price,
\* area_sqm and rooms are absent, falsy or convertible by float()
C19_ReturnsOnNumbers ==
    (/\ pc \in {"checked", "scored"}
     /\ \A f \in {"price", "area_sqm", "rooms"} :
           \/ ~Present(clean_data, f)
           \/ FloatOf(clean_data[f]).k = "ok")
        => compliance.k = "ok"

(***************************************************************************)
(* Claims about calculate_quality_score (SpecScoring)                      *)
(***************************************************************************)
\* calculate_quality_score has returned its Quality Result
Scoring == pc \in {"scored", "scored_given"} /\ quality.k = "ok"

\* every deduction applies to the record and the compliance result
AllDeductions(d, c) ==
    /\ \A i \in 1..Len(required_fields) : ~Present(d, required_fields[i])
    /\ "critical_failures" \in DOMAIN c /\ Len(c.critical_failures) >= 3
    /\ "high_failures" \in DOMAIN c /\ Len(c.high_failures) >= 2
    /\ \A f \in RISK_FLAGS : Present(d, f)
    /\ PriceOutside(FloatOf(Get(d, "price", PyInt(0))),
                    FloatOf(Get(d, "area_sqm", PyInt(1)))) = Ok(TRUE)

\* C20: every score calculate_quality_score returns is an integer in
\* [0, 100], for any record and any compliance result, and a record with
\* every deduction applied (all 19 required fields missing, at least 3
\* critical and 2 high failures, all four risk flags set, price ratio out
\* of range) scores exactly 0.
C20_ScoreInRange ==
    Scoring =>
        /\ quality.v.score \in 0..100
        /\ AllDeductions(clean_data, compliance.v) => quality.v.score = 0

\* the record with every deduction has been checked and scored
C20_Witness ==
    /\ pc = "scored"
    /\ quality.k = "ok"
    /\ AllDeductions(clean_data, compliance.v)
    /\ quality.v.score = 0


\* the compliance result without its critical failures
WithoutCriticals(c) == [key \in DOMAIN c \ {"critical_failures"} |-> c[key]]

\* the score of the same record without the critical failures
BaseScore(d, c) == calculate_quality_score(d, WithoutCriticals(c)).v.score

\* the score is lower than the base by 10 to 30 when the base is 100, and
\* by no more than 30 whatever the base
LoweredByCriticals(base, score) ==
    /\ base - score \in 0..30
    /\ base = 100 => base - score >= 10

\* C21: a critical failure added to a record that scores 100 lowers the
\* score of calculate_quality_score by at least 10 against the same record
\* without the failure, and the critical failures together never lower a
\* score by more than 30, however many they are.
C21_CriticalLowersScore ==
    (Scoring /\ FailureCount(compliance.v, "critical_failures") >= 1)
        => LoweredByCriticals(BaseScore(clean_data, compliance.v),
                              quality.v.score)

\* a record that scores 100 scores 90 with one critical failure
C21_Witness ==
    /\ Scoring
    /\ FailureCount(compliance.v, "critical_failures") = 1
    /\ BaseScore(clean_data, compliance.v) = 100
    /\ quality.v.score = 90

\* a record that scores 100 scores 70 with four critical failures
C21_FourCriticals ==
    /\ Scoring
    /\ FailureCount(compliance.v, "critical_failures") = 4
    /\ BaseScore(clean_data, compliance.v) = 100
    /\ quality.v.score = 70


\* the required fields of the record that are missing or falsy
MissingFields(d) ==
    {f \in {required_fields[i] : i \in 1..Len(required_fields)} : ~Present(d, f)}

\* points when the flag of the record is set
RiskPoints(d, flag, points) == IF Present(d, flag) THEN points ELSE 0

\* the price-sanity deduction of the record
PriceSanityPoints(d) ==
    IF PriceOutside(FloatOf(Get(d, "price", PyInt(0))),
                    FloatOf(Get(d, "area_sqm", PyInt(1)))) = Ok(TRUE)
    THEN 10 ELSE 0

\* 100 less the deductions of the claim
StatedScore(d, c) ==
    100 - Min(3 * Cardinality(MissingFields(d)), 30)
        - Min(10 * FailureCount(c, "critical_failures"), 30)
        - Min(5 * FailureCount(c, "high_failures"), 10)
        - RiskPoints(d, "has_mortgage", 5)
        - RiskPoints(d, "has_lien", 10)
        - RiskPoints(d, "has_violations", 5)
        - RiskPoints(d, "has_warning_note", 3)
        - PriceSanityPoints(d)

\* C23: for every record and compliance result, the score of
\* calculate_quality_score is, clamped to [0, 100], 100 minus
\* min(3 x missing required fields, 30), minus min(10 x critical failures,
\* 30), minus min(5 x high failures, 10), minus 5 if has_mortgage, 10 if
\* has_lien, 5 if has_violations, 3 if has_warning_note, minus the
\* price-sanity deduction; the four risk deductions add up independently
\* of one another and of the other terms.
C23_ScoreFormula ==
    Scoring =>
        quality.v.score
            = Max(0, Min(100, StatedScore(clean_data, compliance.v)))

\* a complete record with the four risk flags and no failure scores 77
C23_Witness ==
    /\ Scoring
    /\ MissingFields(clean_data) = {}
    /\ \A f \in RISK_FLAGS : Present(clean_data, f)
    /\ FailureCount(compliance.v, "critical_failures") = 0
    /\ FailureCount(compliance.v, "high_failures") = 0
    /\ quality.v.score = 77


\* float() of a field of the record, TypeError for a missing field
AmountFloat(d, f) ==
    IF f \in DOMAIN d /\ (IsNumber(d[f]) \/ d[f].t = "str")
    THEN FloatOf(d[f]) ELSE Raise("TypeError")

\* price / area_sqm can be computed from the record
PriceRatioComputable(d) ==
    /\ AmountFloat(d, "price").k = "ok"
    /\ AmountFloat(d, "area_sqm").k = "ok"
    /\ PpsmOutside(AmountFloat(d, "price").v, AmountFloat(d, "area_sqm").v).k = "ok"

\* price / area_sqm lies outside [5000, 200000]
PriceRatioOutside(d) ==
    PpsmOutside(AmountFloat(d, "price").v, AmountFloat(d, "area_sqm").v).v

\* the Quality Result has the price-sanity deduction, of 10
PriceDeducted(q) ==
    \E i \in 1..Len(q.deductions) :
        q.deductions[i] = [line |-> "price_per_sqm", points |-> 10]

\* C24: calculate_quality_score applies the price-sanity deduction of 10
\* exactly when price / area_sqm can be computed and lies outside
\* [5000, 200000]; when it cannot be computed (area_sqm 0 or missing,
\* price or area non-numeric) no price-sanity deduction is applied.
C24_PriceSanity ==
    Scoring =>
        PriceDeducted(quality.v)
            <=> (PriceRatioComputable(clean_data) /\ PriceRatioOutside(clean_data))

\* a clean record with price 2500000 and area_sqm 0.0 has the deduction
C24_DeductedWithoutArea ==
    /\ pc = "scored"
    /\ quality.k = "ok"
    /\ "price" \in DOMAIN clean_data /\ "area_sqm" \in DOMAIN clean_data
    /\ clean_data["price"] = PyFloat(1, 2500000, 0)
    /\ clean_data["area_sqm"] = PyFloat(1, 0, 0)
    /\ PriceDeducted(quality.v)

\* C24, what holds: with an area_sqm of at least 1 the deduction is applied
\* exactly when the ratio lies outside the range, and a price or area that
\* float() rejects with ValueError or TypeError gives no deduction
C24_WhenAreaAtLeastOne ==
    Scoring =>
        /\ (/\ PriceRatioComputable(clean_data)
            /\ MaxWithOne(AmountFloat(clean_data, "area_sqm").v)
                  = AmountFloat(clean_data, "area_sqm").v)
              => (PriceDeducted(quality.v) <=> PriceRatioOutside(clean_data))
        /\ (\E f \in {"price", "area_sqm"} :
               f \in DOMAIN clean_data /\ FloatOf(clean_data[f]).k = "raise")
              => ~PriceDeducted(quality.v)


\* the tier the claim gives a score: its grade and its recommendation
StatedTier(score) ==
    CASE score >= 80 -> <<"excellent", "ready_to_sign">>
      [] score >= 60 /\ score < 80 -> <<"good", "minor_corrections">>
      [] score >= 40 /\ score < 60 -> <<"medium", "significant_rework">>
      [] score < 40 -> <<"weak", "not_ready">>

\* the Quality Result has the tier of its score
InStatedTier(q) == <<q.grade, q.recommendation>> = StatedTier(q.score)

\* C25: grade and recommendation of calculate_quality_score are a function
\* of the final clamped score alone: 80 and more is the top tier with the
\* ready-to-sign recommendation, 60 to 79 the second, 40 to 59 the third,
\* less than 40 the bottom tier; every score in 0..100 has exactly one tier.
C25_GradeOfScore ==
    /\ Scoring => InStatedTier(quality.v)
    /\ \A points \in 0..100 :
          InStatedTier(QualityResult(<<[line |-> "missing_fields",
                                        points |-> points]>>))

\* a score of 80, at the edge of the top tier
C25_Witness ==
    /\ Scoring
    /\ quality.v.score = 80
    /\ quality.v.grade = "excellent"
    /\ quality.v.recommendation = "ready_to_sign"


(***************************************************************************)
(* Claims about the date of run_validation (SpecValidation)                *)
(***************************************************************************)
\* the signing_date of the record is missing or falsy
SigningEmpty == ~Truthy(Get(data, "signing_date", EmptyStr))

\* the signing_date of the record parses
SigningParses ==
    Truthy(Get(data, "signing_date", EmptyStr)) /\ FieldDate("signing_date").ok

\* C29: the verdict of run_validation depends on the current date through
\* future_signing_date: a signing_date that parses and is strictly earlier
\* than the current date gives a future_signing_date error and valid =
\* False whatever the other fields are; a signing_date equal to or later
\* than the current date, or an empty one, passes the rule.
C29_SigningNotPast ==
    Returned =>
        /\ (SigningParses /\ ~DateGE(FieldDate("signing_date"), today))
              => (/\ InErrors("future_signing_date")
                  /\ ~CountedPassed("future_signing_date")
                  /\ ~result.v.valid)
        /\ (SigningEmpty
            \/ (SigningParses /\ DateGE(FieldDate("signing_date"), today)))
              => (/\ CountedPassed("future_signing_date")
                  /\ ~InErrors("future_signing_date"))

\* a record that satisfies every rule on 2026-03-01, its day of signing, is
\* checked a day later: the only error is future_signing_date
C29_Witness ==
    /\ Returned
    /\ data = AcceptedRecord
    /\ today = Date(2026, 3, 2)
    /\ ~result.v.valid
    /\ \A i \in 1..Len(result.v.errors) :
          result.v.errors[i].rule = "future_signing_date"

\* the same record checked on the day of signing is valid
C29_ValidOnTheDay ==
    /\ Returned
    /\ data = AcceptedRecord
    /\ today = Date(2026, 3, 1)
    /\ result.v.valid


(***************************************************************************)
(* Claims about normalizing twice (SpecAdapter)                            *)
(***************************************************************************)
\* C27: normalize_transaction is idempotent on every input:
\* normalize(normalize(x)) equals normalize(x) for every nested record x,
\* one whose sellers list is empty or absent included, so a normalized
\* record that is saved and loaded keeps its property and transaction
\* fields.
C27_Idempotent ==
    pc = "renormalized" => reflat = flat

\* a record without sellers: the block number of its flat record is gone
\* after the second normalization
C27_FieldsLost ==
    /\ pc = "renormalized"
    /\ "sellers" \notin DOMAIN record
    /\ "seller_name" \notin DOMAIN flat.v
    /\ flat.v.block_number = PyStr(<<"6", "6", "3", "8">>)
    /\ reflat.k = "ok"
    /\ reflat.v.block_number = EmptyStr

\* C27, what holds: the second normalization returns the flat record
\* whenever it has the key seller_name, that is when the sellers list of
\* the nested record is not empty
C27_IdempotentWithSeller ==
    (pc = "renormalized" /\ "seller_name" \in DOMAIN flat.v) => reflat = flat

(***************************************************************************)
(* Claims about the flow (SpecFlow)                                        *)
(***************************************************************************)
\* the record satisfies every validation rule: none failed, none warned
SatisfiesEveryRule ==
    /\ result.v.valid
    /\ result.v.warnings = << >>
    /\ result.v.passed = result.v.total_rules

\* no risk flag of the scorer is set in the clean record
NoRiskFlags == \A flag \in RISK_FLAGS : ~Truthy(Get(clean_data, flag, PyNone))

\* C22: a record that satisfies every validation rule and has no risk flag
\* yields valid = True, compliant = True with no critical failure, and a
\* quality score of at least 80 with the top-tier grade
C22_EndToEnd ==
    (pc = "scored" /\ SatisfiesEveryRule /\ NoRiskFlags)
        => /\ result.v.valid
           /\ compliance.v.compliant
           /\ compliance.v.critical_failures = << >>
           /\ quality.v.score >= 80
           /\ quality.v.grade = "excellent"
           /\ quality.v.recommendation = "ready_to_sign"

\* the record of the scenario has gone through the four steps
C22_Witness ==
    /\ pc = "scored"
    /\ client_data = AcceptedRecord
    /\ document_paths = << >>
    /\ SatisfiesEveryRule /\ NoRiskFlags
    /\ clean_data.area_sqm = PyFloat(1, 95, 0)
    /\ clean_data.price = PyFloat(1, 2500000, 0)
    /\ compliance.v.compliant
    /\ quality.v.score = 100

\* run_validation has accepted the record and merge_and_clean has cleaned it
AcceptedAndCleaned ==
    /\ pc \in {"cleaned", "checked", "scored"}
    /\ result.v.valid

\* C26: for every record run_validation accepts, the clean record of
\* merge_and_clean has seller_id different from buyer_id
C26_IdsDistinct ==
    AcceptedAndCleaned => clean_data.seller_id # clean_data.buyer_id

\* an accepted record whose two ids differ as given and are equal as cleaned
C26_SameAfterCleaning ==
    /\ AcceptedAndCleaned
    /\ client_data.seller_id # client_data.buyer_id
    /\ clean_data.seller_id = clean_data.buyer_id
    /\ clean_data.seller_id = PyStr(<<"1", "2", "3", "4", "5", "6", "7", "8", "2">>)

\* the part of C26 that holds: accepted ids that cleaning leaves as they are
\* stay different
C26_DistinctWhenClean ==
    (/\ AcceptedAndCleaned
     /\ clean_id(client_data.seller_id) = client_data.seller_id
     /\ clean_id(client_data.buyer_id) = client_data.buyer_id)
        => clean_data.seller_id # clean_data.buyer_id

\* the words of a text that show the risk of the flag
RiskLabels(flag) ==
    CASE flag = "has_mortgage" -> {"mortgage", "pledge"}
      [] flag = "has_lien" -> {"lien"}
      [] flag = "has_warning_note" -> {"warning_note"}
      [] flag = "has_violations" -> {"violation"}

\* the text of the document shows the risk of the flag
Shows(doc, flag) == FirstPhrase(doc.text, RiskLabels(flag)) # 0

\* the parser of the document has set the flag
Detected(doc, flag) ==
    /\ Parsed(doc).k = "ok"
    /\ flag \in DOMAIN Parsed(doc).v
    /\ Parsed(doc).v[flag] = PyBool(TRUE)

\* process_documents has processed the documents and built the clean record
DocumentsProcessed == pc \in {"cleaned", "checked", "scored"}

\* C28: a risk that the text of any processed document shows has its flag
\* true in the clean record, whatever the number and order of the documents
C28_RiskNeverLost ==
    DocumentsProcessed =>
        \A i \in 1..Len(document_paths) : \A flag \in RISK_FLAGS :
            (document_paths[i].exists /\ Shows(document_paths[i], flag))
                => clean_data[flag] = PyBool(TRUE)

\* the parser has set has_mortgage for the first land-registry document, the
\* second one shows no mortgage, and the clean record has the flag false
C28_OverwrittenByLater ==
    /\ DocumentsProcessed
    /\ Len(document_paths) = 2
    /\ Detected(document_paths[1], "has_mortgage")
    /\ document_paths[2].tabu /\ document_paths[2].exists
    /\ ~Shows(document_paths[2], "has_mortgage")
    /\ clean_data.has_mortgage = PyBool(FALSE)

\* the part of C28 that holds: a flag set by the parser of a document is true
\* in the clean record when no later document of the flow is parsed by a
\* parser that sets the same flag
C28_KeptFromLastOfKind ==
    DocumentsProcessed =>
        \A i \in 1..Len(document_paths) : \A flag \in RISK_FLAGS :
            (/\ document_paths[i].exists
             /\ Detected(document_paths[i], flag)
             /\ \A j \in (i + 1)..Len(document_paths) :
                    ~(document_paths[j].exists
                      /\ flag \in DOMAIN Parsed(document_paths[j]).v))
                => clean_data[flag] = PyBool(TRUE)

\* a mortgage of the first document is kept through a later municipal document
C28_KeptThroughOtherKind ==
    /\ DocumentsProcessed
    /\ Len(document_paths) = 2
    /\ Detected(document_paths[1], "has_mortgage")
    /\ ~document_paths[2].tabu /\ document_paths[2].exists
    /\ clean_data.has_mortgage = PyBool(TRUE)
    /\ clean_data.has_violations = PyBool(FALSE)

(***************************************************************************)
(* Claims about save_submission and load_submission (SpecStore)            *)
(***************************************************************************)
\* load_submission has been called on the path a call of save_submission
\* returned; record is that call
LoadedSaved == pc = "loaded" /\ record # Unused

\* C30: after any sequence of save_submission calls every saved submission
\* has its own directory and data file: no two calls returned the same
\* path, and load_submission on the path a call returned yields the data
\* that call saved
C30_OwnDirectory ==
    /\ \A i \in 1..Len(saved) : \A j \in 1..Len(saved) :
           i # j => saved[i].path # saved[j].path
    /\ LoadedSaved =>
           /\ result.k = "ok"
           /\ result.v.nested_data = record.nested
           /\ result.v.files = record.uploaded_files

\* two saves of one address within the same second, at different instants,
\* have returned the same path, and load_submission on the path of the first
\* yields the price of the second
C30_SecondOverwritesFirst ==
    /\ LoadedSaved
    /\ Len(saved) = 2
    /\ record = saved[1]
    /\ saved[1].client_data = AcceptedRecord
    /\ saved[2].client_data = With(AcceptedRecord, "price", PyStr(<<"7">>))
    /\ saved[1].at.sec = saved[2].at.sec
    /\ saved[1].at.us < saved[2].at.us
    /\ saved[1].path = saved[2].path
    /\ result.k = "ok"
    /\ result.v.nested_data = saved[2].nested
    /\ result.v.data.price = PyStr(<<"7">>)

\* the part of C30 that holds: saves made in different seconds have
\* directories of their own, and load_submission on the path of a call
\* that shares its second with no other call yields what that call saved
C30_OwnDirectoryAcrossSeconds ==
    /\ \A i \in 1..Len(saved) : \A j \in 1..Len(saved) :
           saved[i].at.sec # saved[j].at.sec => saved[i].path # saved[j].path
    /\ (/\ LoadedSaved
        /\ \A j \in 1..Len(saved) :
              saved[j] # record => saved[j].at.sec # record.at.sec)
          => /\ result.k = "ok"
             /\ result.v.nested_data = record.nested
             /\ result.v.files = record.uploaded_files
             /\ result.v.path = record.path

\* the same address saved in two different seconds and the first loaded
C30_SavedAcrossSeconds ==
    /\ LoadedSaved
    /\ Len(saved) = 2
    /\ record = saved[1]
    /\ saved[1].client_data = AcceptedRecord
    /\ saved[2].client_data = With(AcceptedRecord, "price", PyStr(<<"7">>))
    /\ saved[1].at.sec < saved[2].at.sec
    /\ saved[1].path # saved[2].path
    /\ result.k = "ok"
    /\ result.v.data.price = PyStr(<<"2", "5", "0", "0", "0", "0", "0">>)

====
